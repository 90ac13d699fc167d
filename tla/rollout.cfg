SPECIFICATION Spec
CONSTANTS
  c1 = c1
  c2 = c2
  w1 = w1
  w2 = w2
  w3 = w3
  t1 = t1
  t2 = t2
  t3 = t3
  t4 = t4
  e1 = e1
  e2 = e2
  e3 = e3
  Campaign = {c1}
  Wave = {w1, w2}
  Target = {t1, t2, t3}
  Endpoint = {e1, e2, e3}
  CampaignOf <- MCCampaignOf
  Sequence <- MCSequence
  WaveOf <- MCWaveOf
  EndpointOf <- MCEndpointOf
  Limit <- MCLimit
  AutoPause = {c1}
  Tolerance <- MCTolerance
  Fickle = {t1}
  Troubled = {e1}
  Managed = {e2}
  NoWave = NoWave
  NoCampaign = NoCampaign
INVARIANTS RolloutTypeOK WavesInOrder CampaignsMatchWaves SuccessIsProven WithinLimit OneUpdatePerEndpoint
PROPERTIES DispatchedOnceAndFinal
CHECK_DEADLOCK FALSE
