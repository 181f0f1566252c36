--------------------------- MODULE LockoutHistory ---------------------------
(***************************************************************************)
(* RfbSession with a history variable: for each source address, when its   *)
(* latest failed VncAuth attempts were made, whichever connections made    *)
(* them.  It says what the lockout is for, independently of the counters   *)
(* the code keeps.                                                         *)
(***************************************************************************)
EXTENDS RfbSession

VARIABLE fail_log   \* IP -> the times of its last AuthMaxFails failures

Latest(s) == IF Len(s) > AuthMaxFails THEN Tail(s) ELSE s

LogFailures ==
  fail_log' = [ip \in Ips |->
                 IF \E c \in Conns : IpOf[c] = ip /\ ReadBadResponse(c)
                 THEN Latest(Append(fail_log[ip], now))
                 ELSE fail_log[ip]]

HInit == Init /\ fail_log = [ip \in Ips |-> <<>>]

HNext == Next /\ LogFailures

HSpec == HInit /\ [][HNext]_<<vars, fail_log>>

(* AuthMaxFails failures of one address within the window, the last of     *)
(* them less than AuthBlock seconds ago.                                   *)
LockedOut(ip) ==
  LET log == fail_log[ip] IN
  /\ Len(log) = AuthMaxFails
  /\ log[AuthMaxFails] - log[1] <= AuthWindow
  /\ now < log[AuthMaxFails] + AuthBlock

(* record_auth_failure() "blocks the source IP when the threshold          *)
(* (VNC_AUTH_MAX_FAILS failures within VNC_AUTH_WINDOW_SEC seconds) is     *)
(* exceeded" (src/src/leanrfb.c:318).                                      *)
LockoutEnforced == \A ip \in Ips : LockedOut(ip) => IpIsBlocked(ip)
=============================================================================
