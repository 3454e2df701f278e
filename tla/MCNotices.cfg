SPECIFICATION NoticesSpec
CONSTANTS
  e1 = e1
  e2 = e2
  boss = boss
  r1 = r1
  r2 = r2
  d1 = d1
  c1 = c1
  p1 = p1
  p2 = p2
  p3 = p3
  n2 = n2
  k1 = k1
  n1 = n1
  NoRequest = NoRequest
  NoOwner = NoOwner
  NoAccount = NoAccount
  Employee = {e1}
  Supervisor = {boss}
  Account <- Accounts
  Request = {r1, r2}
  Dispute = {d1}
  RaisedBy <- Raisers
  Creator = {c1}
  Approver = {p1, p2}
  Token = {k1}
  Notice <- AllNotices
  Pusher = {n1, n2}
SYMMETRY Symmetry
INVARIANTS
  NoticesTypeOK
  LedgerFollowsStatus
  NoticeFollowsDecision
PROPERTIES
  EntryComesWithApproval
