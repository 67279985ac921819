SPECIFICATION RequestsSpec
CONSTANTS
  garbage = garbage  local = local  dev = dev  site = site  www = www  google = google
  Unparsable = {garbage}
  Loopback = {local}
  DotLocal = {}
  Domains = {dev, site, www}
  Suspicious = {dev}
  DevNames = {dev}
  StagingNames = {www}
  withoutWww <- MCWithoutWww
  defaultName <- MCDefaultName
  MaxErrors = 2
  MaxUsername = 4
  providerText <- MCProviderText
  None = None
  Urls <- MCUrls
  BatchResults <- MCResults
  Providers = {google}
  ProviderIds <- MCProviderIds
  Names <- MCNames
  Emails <- MCEmails
  Settings <- MCSettings
  Users = {"owner", "other"}
  SessionIds = {s1, s2}
  userOf <- MCUserOf
  Infos <- MCInfos
  Timestamps <- MCTimestamps
  Instants <- MCInstants
  Null = Null
  KeyLength = 36
  Values <- MCValues
  Rows = {1, 2, 3, 4}
  Limits = {0, 1, 2, None}
INVARIANTS TypeOK PageDecidesProject NormalizedAgain AcceptedStaysAccepted SessionJudged StatsBounded TokenLife ReplacedWasWarned SummaryOfBatch GeneratedNameLegal PreparedStaysValid OpeningKeepsAccess AcceptedFits  ClassThenHandler TokenStored PagesComplete
