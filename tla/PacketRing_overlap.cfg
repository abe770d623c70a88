SPECIFICATION Spec
CONSTANTS Capacity = 3
          MaxPush = 9
INVARIANT DeliveredInOrder
