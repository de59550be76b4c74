SPECIFICATION FairSpec
CONSTANT MaxPosts = 1
PROPERTY TargetDelivered
