SPECIFICATION FairSpec
CONSTANTS
  r1 = r1
  r2 = r2
  Relays = {r1, r2}
  BatchSize = 2
  MaxEvents = 2
  Deployments <- PublishFails
PROPERTY Delivered
