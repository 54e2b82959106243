------------------------------ MODULE Throttle ------------------------------
(***************************************************************************)
(* The sign-in backoff: two buckets of failures - one for the account, one *)
(* for each client address - in memory and, written through, in the        *)
(* database, so a restart takes them up again.  A refused attempt is       *)
(* announced to the owner by email, once in a while.  Verifying a password takes time: attempts   *)
(* let in together are counted one after another.                          *)
(***************************************************************************)
EXTENDS Naturals, FiniteSets, Sequences

CONSTANTS
    Addresses,      \* client addresses
    Attempts,       \* attempts that may be in flight at a time
    FreeFailures,   \* [account, ip]: failures that cost no wait
    BaseDelay, MaxDelay, EntryTtl, \* in ticks of the clock
    MaxEntries,     \* address entries kept
    AlertEvery,     \* ticks between two alerts
    MaxTime,        \* bound: the clock
    MaxFailures,    \* bound: failures counted by one entry
    MaxRestarts     \* bound

VARIABLES
    now,        \* the clock
    buckets,    \* in memory: the entries, the one recorded last at the end
    onDisk,     \* in the database: entries by key
    attempt,    \* per attempt: who asks, and how far it is
    alert,      \* [claimed, relay, sent]: the last claim, the relay, the sends
    restarts

throttleVars == <<now, buckets, onDisk, attempt, alert, restarts>>

Account == "account"
Keys == {Account} \cup Addresses

KeysOf(list) == {list[i].key : i \in DOMAIN list}
EntryOf(list, k) == list[CHOOSE i \in DOMAIN list : list[i].key = k]
Without(list, k) == SelectSeq(list, LAMBDA e : e.key # k)

(* Before an attempt is judged or counted, what reached its age is gone,   *)
(* from memory and from the database alike (#prune).                       *)
Fresh(e) == now - e.seen < EntryTtl

PrunedMemory == SelectSeq(buckets, Fresh)

PrunedRows(rows) == {e \in rows : Fresh(e)}


Wait(list, k) ==
    IF k \in KeysOf(list) /\ EntryOf(list, k).until > now
    THEN EntryOf(list, k).until - now ELSE 0

(* A known browser skips the account's bucket, never its address's. *)
RetryAfter(a, known) ==
    LET ip == Wait(PrunedMemory, a) account == Wait(PrunedMemory, Account)
    IN IF known \/ ip > account THEN ip ELSE account

(* The wait doubles with every failure beyond the free ones. *)
Delay(k, failures) ==
    LET free == IF k = Account THEN FreeFailures.account ELSE FreeFailures.ip
        grown == BaseDelay * 2 ^ (failures - free - 1)
    IN IF failures <= free THEN 0 ELSE IF grown > MaxDelay THEN MaxDelay ELSE grown


Failed(list, k) ==
    LET failures == 1 + IF k \in KeysOf(list) THEN EntryOf(list, k).failures ELSE 0
    IN [key |-> k, failures |-> failures, until |-> now + Delay(k, failures), seen |-> now]

(* Counting moves the entry to the end; the entries beyond the bound go,   *)
(* the one counted longest ago first, and with them their rows.            *)
CountedIn(list, k) == Append(Without(list, k), Failed(list, k))

Evicted(list) ==
    LET ips == SelectSeq(list, LAMBDA e : e.key # Account)
    IN IF Len(ips) > MaxEntries THEN {Head(ips).key} ELSE {}

EvictedRows(list) == Evicted(list)


Put(rows, e) == {r \in rows : r.key # e.key} \cup {e}

-----------------------------------------------------------------------------
(* A refusal is announced to the owner by email, unless one was claimed    *)
(* lately or no relay is set up; the window is claimed before the relay is *)
(* tried.                                                                  *)
Claims == alert.relay /\ (alert.claimed = 0 \/ now - (alert.claimed - 1) >= AlertEvery)

Claimed == [alert EXCEPT !.claimed = now + 1, !.sending = @ \cup {now}]


Refuse(n, a, known) ==
    /\ attempt[n].step = "none"
    /\ RetryAfter(a, known) > 0
    /\ buckets' = PrunedMemory /\ onDisk' = PrunedRows(onDisk)
    /\ alert' = IF Claims THEN Claimed ELSE alert
    /\ UNCHANGED <<now, attempt, restarts>>

LetIn(n, a, known) ==
    /\ attempt[n].step = "none"
    /\ RetryAfter(a, known) = 0
    /\ buckets' = PrunedMemory /\ onDisk' = PrunedRows(onDisk)
    /\ attempt' = [attempt EXCEPT ![n] = [step |-> "verify", ip |-> a, known |-> known]]
    /\ UNCHANGED <<now, alert, restarts>>

(* A wrong password is counted against the account and the address. *)
Fail(n) ==
    LET a == attempt[n].ip
        account == CountedIn(PrunedMemory, Account)
        both == CountedIn(account, a)
    IN
    /\ attempt[n].step = "verify"
    /\ EntryOf(both, Account).failures <= MaxFailures /\ EntryOf(both, a).failures <= MaxFailures
    /\ buckets' = SelectSeq(both, LAMBDA e : e.key \notin Evicted(both))
    /\ onDisk' = {e \in Put(Put(PrunedRows(onDisk), EntryOf(both, Account)), EntryOf(both, a)) :
                    e.key \notin EvictedRows(both)}
    /\ attempt' = [attempt EXCEPT ![n] = [@ EXCEPT !.step = "none"]]
    /\ UNCHANGED <<now, alert, restarts>>

(* The right one clears the address, and the account unless the browser    *)
(* never waited on it.                                                     *)
ClearedBy(known) == IF known THEN Addresses ELSE Keys


Succeed(n) ==
    LET a == attempt[n].ip
        cleared == ClearedBy(attempt[n].known) \cap {Account, a}
    IN
    /\ attempt[n].step = "verify"
    /\ buckets' = SelectSeq(buckets, LAMBDA e : e.key \notin cleared)
    /\ onDisk' = {e \in onDisk : e.key \notin cleared}
    /\ attempt' = [attempt EXCEPT ![n] = [@ EXCEPT !.step = "none"]]
    /\ UNCHANGED <<now, alert, restarts>>

(* The gate is full, or the request dies: nothing is counted. *)
GiveUp(n) ==
    /\ attempt[n].step = "verify"
    /\ attempt' = [attempt EXCEPT ![n] = [@ EXCEPT !.step = "none"]]
    /\ UNCHANGED <<now, buckets, onDisk, alert, restarts>>

(* The relay answers; a failure is logged and the claim stands. *)
Deliver ==
    \E t \in alert.sending, ok \in BOOLEAN :
      /\ alert' = [alert EXCEPT !.sending = @ \ {t}, !.sent = IF ok THEN @ \cup {t} ELSE @]
      /\ UNCHANGED <<now, buckets, onDisk, attempt, restarts>>

ConfigureRelay ==
    /\ ~alert.relay
    /\ alert' = [alert EXCEPT !.relay = TRUE]
    /\ UNCHANGED <<now, buckets, onDisk, attempt, restarts>>

Tick ==
    /\ now < MaxTime
    /\ now' = now + 1
    /\ UNCHANGED <<buckets, onDisk, attempt, alert, restarts>>

(* A restart loses the memory and the attempts and reads the rows back,    *)
(* oldest first, leaving out what is past its age (#hydrate).              *)
Restart ==
    /\ restarts < MaxRestarts
    /\ restarts' = restarts + 1
    /\ \E list \in [1..Cardinality(PrunedRows(onDisk)) -> PrunedRows(onDisk)] :
         /\ \A i, j \in DOMAIN list : i < j => list[i] # list[j] /\ list[i].seen <= list[j].seen
         /\ buckets' = list
    /\ onDisk' = PrunedRows(onDisk)
    /\ attempt' = [n \in Attempts |-> [step |-> "none", ip |-> "", known |-> FALSE]]
    /\ alert' = [alert EXCEPT !.sending = {}]
    /\ UNCHANGED <<now>>

-----------------------------------------------------------------------------
ThrottleInit ==
    /\ now = 0 /\ buckets = <<>> /\ onDisk = {}
    /\ attempt = [n \in Attempts |-> [step |-> "none", ip |-> "", known |-> FALSE]]
    /\ alert = [claimed |-> 0, relay |-> FALSE, sending |-> {}, sent |-> {}]
    /\ restarts = 0

ThrottleNext ==
    \/ \E n \in Attempts, a \in Addresses, known \in BOOLEAN :
         Refuse(n, a, known) \/ LetIn(n, a, known)
    \/ \E n \in Attempts : Fail(n) \/ Succeed(n) \/ GiveUp(n)
    \/ Deliver \/ ConfigureRelay \/ Tick \/ Restart

ThrottleSpec == ThrottleInit /\ [][ThrottleNext]_throttleVars

-----------------------------------------------------------------------------
(* Memory and database agree at every moment, whatever expired, was        *)
(* evicted or was read back (write-through of #record, #forget, #prune).   *)
BackoffIsStored ==
    /\ Cardinality(onDisk) = Len(buckets)
    /\ \A i \in DOMAIN buckets : buckets[i] \in onDisk

(* The account's count of failures starts over only with its age or with a *)
(* sign-in that waited on it: not with a restart, and not with a browser   *)
(* that skipped it (recordSuccess).                                        *)
AccountCleared ==
    \E n \in Attempts : /\ attempt[n].step = "verify" /\ ~attempt[n].known
                        /\ attempt'[n].step = "none"

ForgetsNoFailure ==
    Account \in KeysOf(buckets) \ KeysOf(buckets') =>
      AccountCleared \/ now - EntryOf(buckets, Account).seen >= EntryTtl
CountIsKept == [][ForgetsNoFailure]_throttleVars

(* However many attempts are refused, and whether or not the relay answers, *)
(* the owner hears of it once in a window (SignInAlerts.notify).           *)
AlertsAreSpaced ==
    \A t, u \in alert.sent \cup alert.sending : t < u => u - t >= AlertEvery
=============================================================================
