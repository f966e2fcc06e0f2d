SPECIFICATION DeliverySpec
CONSTANTS
    w1 = w1
    w2 = w2
    Writer = {w1, w2}
    MaxSize = 2
    MaxCalls <- MCMaxCalls
    Value <- Item
INVARIANT TrueMeansDelivered
