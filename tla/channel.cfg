\* A critical command, a listing and an SMS: late, lost and unsolicited lines, and a reader that closes.
SPECIFICATION FairSpec
CONSTANTS
  simple = simple
  query = query
  listing = listing
  sms = sms
  Commands = {simple, listing, sms}
  Type <- MCType
  WithPdu = {sms}
  Critical = {simple}
  BLOCKED_MAX_COUNT = 1
  MaxSends = 2
  MaxInfos = 2
  MaxUrcs = 1
  MaxCloses = 1
INVARIANTS AnswersOwnUnlessLate InfosInOrder PduGoesToItsPrompt BlockedReported
PROPERTIES SignalEndsWait
CHECK_DEADLOCK FALSE
