---------------------------- MODULE AuthLockout ----------------------------
(***************************************************************************)
(* The server's brute-force protection: the counters of failed VncAuth     *)
(* attempts kept in each connection's struct, and the table of blocked IPs *)
(* that accept() consults (src/src/leanrfb.c, ip_is_blocked and            *)
(* record_auth_failure; limits in src/src/leanrfb_internal.h).             *)
(*                                                                         *)
(* The table is a partial function from IPs to the second at which the     *)
(* block ends: the code searches it by IP before it adds an entry, so no   *)
(* IP is listed twice and the order of the entries is never observed.      *)
(***************************************************************************)
EXTENDS Integers, FiniteSets

CONSTANTS
  Conns,          \* connections (each is one vnc_client_t while accepted)
  Ips,            \* source addresses
  IpOf,           \* the source address of each connection
  AuthMaxFails,   \* VNC_AUTH_MAX_FAILS
  AuthWindow,     \* VNC_AUTH_WINDOW_SEC
  AuthBlock,      \* VNC_AUTH_BLOCK_SEC
  MaxBlockedIps,  \* VNC_MAX_BLOCKED_IPS
  MaxTime         \* bound of the model: the clock stops there

ASSUME AuthAssumption ==
  /\ IpOf \in [Conns -> Ips]
  /\ AuthMaxFails \in Nat \ {0}
  /\ AuthWindow \in Nat
  /\ AuthBlock \in Nat \ {0}
  /\ MaxBlockedIps \in Nat
  /\ MaxTime \in Nat

VARIABLES
  now,                  \* time(NULL), in seconds
  blocked_ips,          \* server->blocked_ips: IP -> block_until
  auth_fail_count,      \* client->auth_fail_count
  auth_first_fail_time  \* client->auth_first_fail_time

authVars == <<now, blocked_ips, auth_fail_count, auth_first_fail_time>>

AuthTypeOK ==
  /\ now \in 0..MaxTime
  /\ DOMAIN blocked_ips \subseteq Ips
  /\ blocked_ips \in [DOMAIN blocked_ips -> Nat]
  /\ auth_fail_count \in [Conns -> Nat]
  /\ auth_first_fail_time \in [Conns -> Nat]

AuthInit ==
  /\ now = 0
  /\ blocked_ips = [ip \in {} |-> 0]
  /\ auth_fail_count = [c \in Conns |-> 0]
  /\ auth_first_fail_time = [c \in Conns |-> 0]

-----------------------------------------------------------------------------
(* The table of blocked addresses. *)

IpIsBlocked(ip) == ip \in DOMAIN blocked_ips /\ now < blocked_ips[ip]

(* Looking an address up drops its entry when the block has expired. *)
DropExpired(ip) ==
  blocked_ips' = IF ip \in DOMAIN blocked_ips /\ ~IpIsBlocked(ip)
                 THEN [i \in DOMAIN blocked_ips \ {ip} |-> blocked_ips[i]]
                 ELSE blocked_ips

Block(ip) ==
  LET Listed == DOMAIN blocked_ips IN
  blocked_ips' =
    IF ip \in Listed \/ Cardinality(Listed) < MaxBlockedIps
    THEN [i \in Listed \cup {ip} |->
            IF i = ip THEN now + AuthBlock ELSE blocked_ips[i]]
    ELSE blocked_ips

(* A failed attempt opens a new window for its connection, or counts in    *)
(* the window the connection has open.                                     *)
OpensWindow(c) == \/ auth_fail_count[c] = 0
                  \/ now - auth_first_fail_time[c] > AuthWindow

RecordAuthFailure(c) ==
  LET n == IF OpensWindow(c) THEN 1 ELSE auth_fail_count[c] + 1 IN
  /\ auth_fail_count' = [auth_fail_count EXCEPT ![c] = n]
  /\ auth_first_fail_time' =
       [auth_first_fail_time EXCEPT ![c] = IF OpensWindow(c) THEN now ELSE @]
  /\ IF n >= AuthMaxFails THEN Block(IpOf[c]) ELSE UNCHANGED blocked_ips
  /\ UNCHANGED now

(* calloc() of a new client struct at accept(): its counters start at zero. *)
ResetAuth(c) ==
  /\ auth_fail_count' = [auth_fail_count EXCEPT ![c] = 0]
  /\ auth_first_fail_time' = [auth_first_fail_time EXCEPT ![c] = 0]

ClockTick ==
  /\ now < MaxTime
  /\ now' = now + 1
  /\ UNCHANGED <<blocked_ips, auth_fail_count, auth_first_fail_time>>
=============================================================================
