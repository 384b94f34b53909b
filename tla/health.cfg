CONSTANTS
  Deployments = {d1}
  Admins = {u1}
  Loop = Loop
  Maintained = TRUE
  Answers = {"ok", "refused", "rejected"}
  EnvEvents = {"reload", "channel", "relay", "lapse", "recover"}
SPECIFICATION FairSpec
PROPERTIES
  StatusFollowsProvider
