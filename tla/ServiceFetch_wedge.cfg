SPECIFICATION FairSpec
CONSTANTS
  flashApi = flashApi
  flashApiPrices = flashApiPrices
  fstats = fstats
  price1 = price1
  price2 = price2
  build1 = build1
  stats1 = stats1
  Services = {flashApi, flashApiPrices, fstats}
  Config <- MCConfig
  Callers = {price1, price2, build1, stats1}
  ServiceOf <- MCServiceOf
  PriceCallers = {price1, price2}
  PriceBreaker = flashApiPrices
  Stats = {fstats}
PROPERTIES
  EveryProbeIsHeard
