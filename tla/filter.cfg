\* Three domains that share two addresses, every failure of WFP and of the hosts
\* file, and a second process that purges.
SPECIFICATION Spec
CONSTANTS
  None = None
  Domain = {d1, d2, d3}
  Ip = {ip1, ip2}
INVARIANTS TypeOK RefsMatchClaims ClaimedIsBlocked OneMode PinnedIsAnswered
