------------------------------- MODULE SignIn -------------------------------
(***************************************************************************)
(* The owner's account: its creation, sign-in, the change of its password  *)
(* and sign-out.  A request reads the account, then waits - for the gate   *)
(* in front of password hashing, or for the vault - and writes afterwards, *)
(* so requests of several browsers overlap at every wait.  Sessions and    *)
(* known browsers are rows of Suite Manager's database; a browser keeps    *)
(* one session cookie for each transport.                                  *)
(***************************************************************************)
EXTENDS Naturals, FiniteSets, SequencesExt

CONSTANTS
    Browsers,
    Passwords,      \* passwords long enough for the account
    NoOwner,        \* the account before it is created
    MaxConcurrent,  \* MAX_CONCURRENT_HASHES
    MaxQueued,      \* MAX_QUEUED_HASHES
    MaxKnown,       \* rows of known_browsers kept
    MaxIssued,      \* bound: session tokens
    MaxHashes,      \* bound: password hashes written
    MaxRestarts,    \* bound: restarts of Suite Manager
    MaxAgings       \* bound: sessions that grow stale

VARIABLES
    owner,      \* NoOwner, or the row: [password, hash, weak, set, by]
    sessions,   \* rows of sessions: [token, browser, password, asked, opened, seen]
    knownBrowsers,  \* their browsers, the one seen longest ago first
    jar,        \* each browser's session cookies: [https, http], 0 for none
    request,    \* each browser's request under way
    gate,       \* the hash gate: [active, queue]
    begun,      \* ghost: over which transport a browser's last sign-in holds
    used        \* how much of each bound was used

signInVars == <<owner, sessions, knownBrowsers, jar, request, gate, begun, used>>

None == [kind |-> "none"]

-----------------------------------------------------------------------------
(* The gate in front of hashing: so many at a time, so many waiting, and   *)
(* nobody beyond that.                                                     *)

Busy == Cardinality(gate.active) >= MaxConcurrent /\ Len(gate.queue) >= MaxQueued

Entered(b) ==
    IF Cardinality(gate.active) < MaxConcurrent
    THEN [gate EXCEPT !.active = @ \cup {b}]
    ELSE [gate EXCEPT !.queue = Append(@, b)]

(* A hash that ends starts the first one waiting. *)
LeftAlone(g, b) == [g EXCEPT !.active = @ \ {b}]
Left(g, b) ==
    IF g.queue = <<>>
    THEN [g EXCEPT !.active = @ \ {b}]
    ELSE [active |-> (g.active \ {b}) \cup {Head(g.queue)}, queue |-> Tail(g.queue)]


(* One hash follows another in the same request: the slot goes to whoever  *)
(* waits, and the request asks for one again.                              *)
LeftAndEntered(b) ==
    LET left == Left(gate, b) IN
    IF Cardinality(left.active) < MaxConcurrent
    THEN [left EXCEPT !.active = @ \cup {b}]
    ELSE [left EXCEPT !.queue = Append(@, b)]

-----------------------------------------------------------------------------
(* Sessions and cookies.                                                   *)

Live(token) == \E s \in sessions : s.token = token /\ s.seen # "over"

(* Over https a browser sends both cookies and the transport's own counts  *)
(* first; over http it never sends the Secure one.                         *)
Sent(b, secure) ==
    IF secure /\ jar[b].https # 0 THEN jar[b].https ELSE jar[b].http

SignedIn(b, secure) == Live(Sent(b, secure))

SetCookie(b, secure, token) ==
    jar' = [jar EXCEPT ![b] = IF secure THEN [@ EXCEPT !.https = token]
                                        ELSE [@ EXCEPT !.http = token]]

(* One cookie name for both transports: an http answer may not touch a     *)
(* Secure cookie of the same name.                                         *)

(* An account's `set` is the hash its password was set with.  A session     *)
(* carries it twice, for the properties: as its sign-in read it, and as it  *)
(* was when the session began.                                              *)
NewSession(b, password, asked, opened) ==
    [token |-> used.issued + 1, browser |-> b, password |-> password,
     asked |-> asked, opened |-> opened, seen |-> "fresh"]

(* createSession sweeps what no longer signs the owner in. *)
Swept(rows) == {s \in rows : s.seen # "over"}

(* A known browser is remembered once more as the latest, and the rows     *)
(* beyond the bound go, oldest first.                                      *)
Remembered(list, b) ==
    LET next == Append(SelectSeq(list, LAMBDA k : k # b), b) IN
    IF Len(next) > MaxKnown THEN Tail(next) ELSE next

-----------------------------------------------------------------------------
(* A request's beginning: everything before its first wait.                *)

Waits(b, r) ==
    /\ request[b] = None
    /\ ~Busy
    /\ request' = [request EXCEPT ![b] = r]
    /\ gate' = Entered(b)
    /\ begun' = [begun EXCEPT ![b] = "none"]

AskCreate(b, password, secure) ==
    /\ owner = NoOwner
    /\ Waits(b, [kind |-> "create", step |-> "hash", password |-> password,
                 secure |-> secure])
    /\ UNCHANGED <<owner, sessions, knownBrowsers, jar, used>>

(* A browser that has signed in before is known by its cookie, which the   *)
(* question itself marks as seen.                                          *)
AskLogin(b, password, secure) ==
    /\ owner # NoOwner
    /\ used.issued < MaxIssued
    /\ Waits(b, [kind |-> "login", step |-> "verify", password |-> password,
                 secure |-> secure, read |-> owner,
                 known |-> Contains(knownBrowsers, b)])
    /\ knownBrowsers' = IF Contains(knownBrowsers, b)
                        THEN Remembered(knownBrowsers, b) ELSE knownBrowsers
    /\ UNCHANGED <<owner, sessions, jar, used>>

AskChange(b, current, next, secure) ==
    /\ owner # NoOwner
    /\ used.issued < MaxIssued /\ used.hashes < MaxHashes
    /\ SignedIn(b, secure)
    /\ Waits(b, [kind |-> "change", step |-> "verify", password |-> current,
                 next |-> next, secure |-> secure, read |-> owner])
    /\ UNCHANGED <<owner, sessions, knownBrowsers, jar, used>>

-----------------------------------------------------------------------------
(* What follows a hash.                                                    *)

Refuse(b) ==
    /\ request' = [request EXCEPT ![b] = None]
    /\ UNCHANGED <<owner, sessions, knownBrowsers, jar, begun, used>>

Answers(b, secure, token) ==
    /\ request' = [request EXCEPT ![b] = None]
    /\ SetCookie(b, secure, token)

(* The row is inserted only where there is none: of two creations the      *)
(* second is refused.                                                      *)
Inserts(b) == owner = NoOwner


CreateOwner(b) ==
    /\ request[b].kind = "create" /\ b \in gate.active
    /\ gate' = Left(gate, b)
    /\ \/ /\ Inserts(b)
          /\ used.issued < MaxIssued
          /\ owner' = [password |-> request[b].password, hash |-> used.hashes + 1,
                       weak |-> FALSE, set |-> used.hashes + 1, by |-> b]
          /\ sessions' = sessions \cup {NewSession(b, request[b].password, owner'.set, owner'.set)}
          /\ used' = [used EXCEPT !.issued = @ + 1, !.hashes = @ + 1]
          /\ Answers(b, request[b].secure, used.issued + 1)
          /\ begun' = [begun EXCEPT ![b] = IF request[b].secure THEN "https" ELSE "http"]
          /\ UNCHANGED knownBrowsers
       \/ /\ ~Inserts(b)
          /\ Refuse(b)

StartSession(b) ==
    LET r == request[b] IN
    /\ sessions' = Swept(sessions) \cup
                     {NewSession(b, r.password, r.read.set, owner.set)}
    /\ knownBrowsers' = IF r.known THEN knownBrowsers ELSE Remembered(knownBrowsers, b)
    /\ Answers(b, r.secure, used.issued + 1)
    /\ begun' = [begun EXCEPT ![b] = IF r.secure THEN "https" ELSE "http"]

(* The password is compared with the hash read before the wait. *)
VerifyLogin(b) ==
    LET r == request[b] IN
    /\ r.kind = "login" /\ r.step = "verify" /\ b \in gate.active
    /\ \/ /\ r.password # r.read.password
          /\ gate' = Left(gate, b)
          /\ Refuse(b)
       \/ /\ r.password = r.read.password /\ ~r.read.weak
          /\ used.issued < MaxIssued
          /\ gate' = Left(gate, b)
          /\ StartSession(b)
          /\ used' = [used EXCEPT !.issued = @ + 1]
          /\ UNCHANGED owner
       \/ /\ r.password = r.read.password /\ r.read.weak
          /\ gate' = LeftAndEntered(b)
          /\ request' = [request EXCEPT ![b].step = "upgrade"]
          /\ UNCHANGED <<owner, sessions, knownBrowsers, jar, begun, used>>

(* A hash written under weaker parameters is replaced while the password   *)
(* is at hand, and only if it is still the one that was verified.          *)
UpgradeLands(read) == owner.hash = read.hash


UpgradeLogin(b) ==
    LET r == request[b] IN
    /\ r.kind = "login" /\ r.step = "upgrade" /\ b \in gate.active
    /\ used.issued < MaxIssued
    /\ gate' = Left(gate, b)
    /\ owner' = IF UpgradeLands(r.read)
                THEN [owner EXCEPT !.password = r.password, !.hash = used.hashes + 1,
                                   !.weak = FALSE]
                ELSE owner
    /\ used' = [used EXCEPT !.issued = @ + 1, !.hashes = @ + 1]
    /\ StartSession(b)

(* The change proves the current password, refuses the one in use, and     *)
(* lets the vault learn the new one before it becomes the account's.       *)
CheckChange(b) ==
    LET r == request[b] IN
    /\ r.kind = "change" /\ r.step \in {"verify", "compare"} /\ b \in gate.active
    /\ \/ /\ \/ r.step = "verify" /\ r.password # r.read.password
             \/ r.step = "compare" /\ r.next = r.read.password
          /\ gate' = Left(gate, b)
          /\ Refuse(b)
       \/ /\ r.step = "verify" /\ r.password = r.read.password
          /\ gate' = LeftAndEntered(b)
          /\ request' = [request EXCEPT ![b].step = "compare"]
          /\ UNCHANGED <<owner, sessions, knownBrowsers, jar, begun, used>>
       \/ /\ r.step = "compare" /\ r.next # r.read.password
          /\ gate' = Left(gate, b)
          /\ request' = [request EXCEPT ![b].step = "teach"]
          /\ UNCHANGED <<owner, sessions, knownBrowsers, jar, begun, used>>

TeachVault(b) ==
    /\ request[b].kind = "change" /\ request[b].step = "teach"
    /\ \/ /\ ~Busy
          /\ gate' = Entered(b)
          /\ request' = [request EXCEPT ![b].step = "hash"]
          /\ UNCHANGED <<owner, sessions, knownBrowsers, jar, begun, used>>
       \/ /\ Busy
          /\ Refuse(b)
          /\ UNCHANGED gate

(* One transaction stores the hash and ends every session and every known  *)
(* browser; this one gets a new session and is remembered again.           *)
SurvivorsOf(b) == {}


ReplacePassword(b) ==
    LET r == request[b] IN
    /\ r.kind = "change" /\ r.step = "hash" /\ b \in gate.active
    /\ used.issued < MaxIssued /\ used.hashes < MaxHashes
    /\ gate' = Left(gate, b)
    /\ owner' = [owner EXCEPT !.password = r.next, !.hash = used.hashes + 1, !.weak = FALSE,
                              !.set = used.hashes + 1]
    /\ sessions' = SurvivorsOf(b) \cup {NewSession(b, r.next, owner'.set, owner'.set)}
    /\ knownBrowsers' = <<b>>
    /\ used' = [used EXCEPT !.issued = @ + 1, !.hashes = @ + 1]
    /\ Answers(b, r.secure, used.issued + 1)
    /\ begun' = [x \in Browsers |-> IF x # b THEN "none"
                                    ELSE IF r.secure THEN "https" ELSE "http"]

-----------------------------------------------------------------------------
(* Signing out ends the session named and clears what the transport can    *)
(* reach.                                                                  *)
Logout(b, secure) ==
    /\ request[b] = None /\ Sent(b, secure) # 0
    /\ sessions' = {s \in sessions : s.token # Sent(b, secure)}
    /\ jar' = [jar EXCEPT ![b] = IF secure THEN [https |-> 0, http |-> 0]
                                           ELSE [@ EXCEPT !.http = 0]]
    /\ begun' = [begun EXCEPT ![b] = "none"]
    /\ UNCHANGED <<owner, knownBrowsers, request, gate, used>>

(* A request with a live session that was not written back for an hour     *)
(* marks it as seen now.                                                   *)
MarkSeen(b, secure) ==
    \E s \in sessions :
      /\ s.token = Sent(b, secure) /\ s.seen = "due"
      /\ sessions' = (sessions \ {s}) \cup {[s EXCEPT !.seen = "fresh"]}
      /\ UNCHANGED <<owner, knownBrowsers, jar, request, gate, begun, used>>

(* Time passes over a session: an hour without a write, the idle limit or  *)
(* the age limit.                                                          *)
SessionAges ==
    /\ used.agings < MaxAgings
    /\ \E s \in sessions, age \in {"due", "over"} :
         /\ s.seen # "over" /\ age # s.seen
         /\ sessions' = (sessions \ {s}) \cup {[s EXCEPT !.seen = age]}
         /\ begun' = IF age = "over"
                     THEN [begun EXCEPT ![s.browser] = "none"] ELSE begun
    /\ used' = [used EXCEPT !.agings = @ + 1]
    /\ UNCHANGED <<owner, knownBrowsers, jar, request, gate>>

(* A restart forgets the requests and the gate; the rows stay.  The release *)
(* it starts may hash with stronger parameters than the stored hash has.   *)
Restart ==
    /\ used.restarts < MaxRestarts
    /\ used' = [used EXCEPT !.restarts = @ + 1]
    /\ request' = [b \in Browsers |-> None]
    /\ gate' = [active |-> {}, queue |-> <<>>]
    /\ owner' \in (IF owner = NoOwner THEN {owner} ELSE {owner, [owner EXCEPT !.weak = TRUE]})
    /\ UNCHANGED <<sessions, knownBrowsers, jar, begun>>

-----------------------------------------------------------------------------
SignInInit ==
    /\ owner = NoOwner /\ sessions = {} /\ knownBrowsers = <<>>
    /\ jar = [b \in Browsers |-> [https |-> 0, http |-> 0]]
    /\ request = [b \in Browsers |-> None]
    /\ gate = [active |-> {}, queue |-> <<>>]
    /\ begun = [b \in Browsers |-> "none"]
    /\ used = [issued |-> 0, hashes |-> 0, restarts |-> 0, agings |-> 0]

SignInNext ==
    \/ \E b \in Browsers, p \in Passwords, secure \in BOOLEAN :
         AskCreate(b, p, secure) \/ AskLogin(b, p, secure)
    \/ \E b \in Browsers, p, q \in Passwords, secure \in BOOLEAN : AskChange(b, p, q, secure)
    \/ \E b \in Browsers :
         \/ CreateOwner(b) \/ VerifyLogin(b) \/ UpgradeLogin(b)
         \/ CheckChange(b) \/ TeachVault(b) \/ ReplacePassword(b)
    \/ \E b \in Browsers, secure \in BOOLEAN : Logout(b, secure) \/ MarkSeen(b, secure)
    \/ SessionAges
    \/ Restart

SignInSpec == SignInInit /\ [][SignInNext]_signInVars

-----------------------------------------------------------------------------
(* Nobody waits for a hash beside a free slot, and every request that has  *)
(* to hash is in the gate exactly once (HashGate).                         *)
GateServesEveryone ==
    /\ Cardinality(gate.active) <= MaxConcurrent
    /\ gate.queue # <<>> => Cardinality(gate.active) = MaxConcurrent
    /\ \A b \in Browsers :
         (request[b] # None /\ request[b].step # "teach")
           => (b \in gate.active) # Contains(gate.queue, b)

(* The account has one owner for good, and its password is only ever the   *)
(* one the owner set by a change: a hash upgrade that was being computed   *)
(* never reverts a change (upgradeOwnerPasswordHash), and a creation that  *)
(* hashed meanwhile never takes the account over (insertOwner).            *)
OwnerDecides ==
    owner # NoOwner =>
      /\ owner' # NoOwner /\ owner'.by = owner.by
      /\ owner'.password # owner.password =>
           \E b \in Browsers : /\ request[b].kind = "change"
                               /\ request[b].next = owner'.password
                               /\ request'[b] = None
PasswordIsTheOwners == [][OwnerDecides]_signInVars

(* A changed password ends every session there is, whoever opened it, and  *)
(* no sign-in that reads the account after the change opens one with an    *)
(* earlier password (replaceOwnerPassword, login).                         *)
PasswordTakesItsSessions ==
    \A s \in sessions : /\ s.opened = owner.set
                        /\ s.asked = owner.set => s.password = owner.password

(* That no session of an earlier password is left (setup-service.cjs:230)  *)
(* does not hold: a sign-in that read the account before the change and    *)
(* compares while it is made opens its session afterwards.                 *)
OldPasswordsOpenNothing == \A s \in sessions : s.password = owner.password

(* A browser that signed in over a transport stays signed in there until   *)
(* it signs out, its session is over or the password changes: no cookie    *)
(* left behind by the other transport is in the way (cookies.cjs).         *)
SignInHolds ==
    \A b \in Browsers :
      /\ begun[b] = "https" => SignedIn(b, TRUE)
      /\ begun[b] = "http" => SignedIn(b, FALSE)
=============================================================================
