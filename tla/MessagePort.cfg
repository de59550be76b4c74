SPECIFICATION FairSpec
CONSTANT MaxPosts = 2
INVARIANT HoldsOnlyToFlush
PROPERTIES ImplementsChannel NoLossWithListener Delivered
