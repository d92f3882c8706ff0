SPECIFICATION DictSpec
CONSTANTS
  Dicts <- SurpriseDicts
  Again <- SurpriseDicts
INVARIANTS
  DictionariesMeanWhatTheySay
