-------------------------------- MODULE Relay --------------------------------
(***************************************************************************)
(* The owner's email relay: the row and the password file it is kept in,   *)
(* the settings panel of a browser tab, and the conversations with the     *)
(* relay - to verify it, to send a test message, to alert the owner.  A    *)
(* conversation uses the relay as it was stored when it began; its outcome *)
(* is written to the row as it is when it ends.                            *)
(***************************************************************************)
EXTENDS Naturals, Sequences

CONSTANTS
    Tabs,         \* browser tabs with the panel open
    Forms,        \* what the owner may type: [host, security, user, insecure]
    Passwords,
    Servers,      \* per host: [starttls, trusted, logins]
    NoRelay, NoPassword, NoTalk,
    MaxSaves, MaxTests, MaxAlerts, MaxCrashes   \* bounds

VARIABLES
    settings,     \* the row: [relay, ref, verdict]
    secretFile,   \* the password file
    talks,        \* per tab, and for the alert: the conversation under way
    panel,        \* per tab: [editing, seen, form, typed]
    proved,       \* the relay and password of the last success recorded
    overlapped,   \* a change or a check began while another check ran
    count         \* [saves, tests, alerts, crashes]

relayVars == <<settings, secretFile, talks, panel, proved, overlapped, count>>

Alert == "alert"
Talkers == Tabs \cup {Alert}
Busy(t) == talks[t] # NoTalk
Checking == \E t \in Tabs : Busy(t)
Shown(row) == [editing |-> FALSE, seen |-> row.relay, form |-> row.relay, typed |-> NoPassword]

-----------------------------------------------------------------------------
(* Half a credential is refused; a blank password keeps the one that is    *)
(* stored; a login over a connection that is not encrypted needs the       *)
(* owner's word for it.                                                    *)
Valid(f, typed) ==
    /\ f # NoRelay
    /\ f.user <=> (typed # NoPassword \/ settings.ref)
    /\ (f.security = "none" /\ f.user) => f.insecure

(* What the code reads back: the row, and the password if it refers to one. *)
Readable == settings.relay # NoRelay /\ (settings.ref => secretFile # NoPassword)
Stored == [relay |-> settings.relay,
           password |-> IF settings.ref THEN secretFile ELSE NoPassword]

(* The conversation, command by command. *)
Login(f) ==
    IF ~f.user THEN <<>>
    ELSE IF "PLAIN" \in Servers[f.host].logins THEN <<"AUTH PLAIN">>
    ELSE <<"AUTH LOGIN", "username", "password">>

Upgrade(f) ==
    IF f.security = "starttls" THEN <<"STARTTLS", "handshake", "EHLO">> ELSE <<>>

Script(kind, f) ==
    (IF f.security = "tls" THEN <<"connect", "handshake">> ELSE <<"connect">>)
    \o <<"greeting", "EHLO">> \o Upgrade(f) \o Login(f)
    \o (IF kind = "verify" THEN <<"RSET", "QUIT">>
        ELSE <<"MAIL", "RCPT", "DATA", "message", "QUIT">>)

(* What the relay can answer at all. *)
Accepts(command, f) ==
    LET server == Servers[f.host] IN
    CASE command = "STARTTLS" -> server.starttls
      [] command = "handshake" -> server.trusted \/ f.insecure
      [] command = "AUTH LOGIN" -> "LOGIN" \in server.logins \/ server.logins = {}
      [] OTHER -> TRUE

Talk(kind) == [kind |-> kind, with |-> Stored, at |-> 1]

-----------------------------------------------------------------------------
(* The outcome: a verification and a test message are recorded, an alert   *)
(* is not; the tab that asked shows what is stored by then, in place of    *)
(* what was being typed.                                                   *)
Removed == [relay |-> NoRelay, ref |-> FALSE, verdict |-> "never"]

Ends(t, success) ==
    LET talk == talks[t] verdict == IF success THEN "verified" ELSE "failed" IN
    /\ talks' = [talks EXCEPT ![t] = NoTalk]
    /\ settings' = IF talk.kind = "alert" THEN settings
                   ELSE [settings EXCEPT !.verdict = verdict]
    /\ proved' = IF success /\ talk.kind # "alert" THEN talk.with ELSE proved
    /\ panel' = CASE talk.kind = "verify" -> [panel EXCEPT ![t] = Shown(settings)]
                  [] talk.kind = "test" /\ success -> [panel EXCEPT ![t].seen = settings.relay, ![t].form = settings.relay]
                  [] OTHER -> panel
    /\ UNCHANGED <<secretFile, overlapped, count>>

Answered(t) ==
    /\ Busy(t)
    /\ LET talk == talks[t] script == Script(talk.kind, talk.with.relay) IN
       /\ Accepts(script[talk.at], talk.with.relay)
       /\ IF talk.at = Len(script) THEN Ends(t, TRUE)
          ELSE /\ talks' = [talks EXCEPT ![t].at = @ + 1]
               /\ UNCHANGED <<settings, secretFile, panel, proved, overlapped, count>>

(* A refusal, a closed connection, a reply that is too long or too late. *)
Refused(t) == Busy(t) /\ Ends(t, FALSE)

-----------------------------------------------------------------------------
(* Saving: the password file, the row, and a verification at once.  The    *)
(* row is saved whatever the verification finds.                           *)
PasswordSaved(f, typed) ==
    IF typed # NoPassword THEN typed
    ELSE IF settings.ref THEN secretFile ELSE NoPassword

Saved(f, typed) ==
    [relay |-> f, ref |-> settings.ref \/ typed # NoPassword, verdict |-> "verifying"]

Save(t) ==
    LET f == panel[t].form typed == panel[t].typed IN
    /\ panel[t].editing /\ ~Busy(t) /\ count.saves < MaxSaves
    /\ Valid(f, typed)
    /\ secretFile' = PasswordSaved(f, typed)
    /\ overlapped' = (overlapped \/ Checking)
    /\ count' = [count EXCEPT !.saves = @ + 1]
    /\ IF Saved(f, typed).ref /\ secretFile' = NoPassword
       THEN /\ settings' = [Saved(f, typed) EXCEPT !.verdict = "never"]
            /\ panel' = [panel EXCEPT ![t] = Shown(settings')]
            /\ UNCHANGED <<talks, proved>>
       ELSE /\ settings' = Saved(f, typed)
            /\ talks' = [talks EXCEPT ![t] =
                 [kind |-> "verify", at |-> 1,
                  with |-> [relay |-> f, password |-> secretFile']]]
            /\ UNCHANGED <<panel, proved>>

(* The test message goes to the relay as stored, whatever is being typed. *)
SendTest(t) ==
    /\ ~Busy(t) /\ count.tests < MaxTests
    /\ Readable
    /\ settings' = [settings EXCEPT !.verdict = "verifying"]
    /\ talks' = [talks EXCEPT ![t] = Talk("test")]
    /\ overlapped' = (overlapped \/ Checking)
    /\ count' = [count EXCEPT !.tests = @ + 1]
    /\ UNCHANGED <<secretFile, panel, proved>>

SendToOwner ==
    /\ ~Busy(Alert) /\ count.alerts < MaxAlerts
    /\ Readable
    /\ talks' = [talks EXCEPT ![Alert] = Talk("alert")]
    /\ count' = [count EXCEPT !.alerts = @ + 1]
    /\ UNCHANGED <<settings, secretFile, panel, proved, overlapped>>

Remove(t) ==
    /\ panel[t].editing /\ ~Busy(t) /\ settings.relay # NoRelay
    /\ secretFile' = NoPassword
    /\ settings' = Removed
    /\ panel' = [panel EXCEPT ![t] = Shown(settings')]
    /\ overlapped' = (overlapped \/ Checking)
    /\ UNCHANGED <<talks, proved, count>>

-----------------------------------------------------------------------------
(* The panel.                                                              *)
ToggleEditing(t) ==
    /\ panel' = [panel EXCEPT ![t] =
         [@ EXCEPT !.editing = ~@, !.typed = NoPassword,
                   !.form = IF panel[t].editing THEN panel[t].seen ELSE panel[t].form]]
    /\ UNCHANGED <<settings, secretFile, talks, proved, overlapped, count>>

Type(t, f, typed) ==
    /\ panel[t].editing
    /\ panel' = [panel EXCEPT ![t].form = f, ![t].typed = typed]
    /\ UNCHANGED <<settings, secretFile, talks, proved, overlapped, count>>

(* Suite Manager stops, at rest or between the file and the row; the       *)
(* conversations end with it, unrecorded.                                  *)
Dies(file) ==
    /\ count.crashes < MaxCrashes
    /\ secretFile' = file
    /\ talks' = [t \in Talkers |-> NoTalk]
    /\ count' = [count EXCEPT !.crashes = @ + 1]
    /\ UNCHANGED <<settings, panel, proved, overlapped>>

Crash == Dies(secretFile)
SaveCut(t) ==
    /\ panel[t].editing /\ ~Busy(t) /\ Valid(panel[t].form, panel[t].typed)
    /\ Dies(PasswordSaved(panel[t].form, panel[t].typed))
RemoveCut(t) ==
    /\ panel[t].editing /\ ~Busy(t) /\ settings.relay # NoRelay
    /\ Dies(NoPassword)

-----------------------------------------------------------------------------
RelayInit ==
    /\ settings = [relay |-> NoRelay, ref |-> FALSE, verdict |-> "never"]
    /\ secretFile = NoPassword
    /\ talks = [t \in Talkers |-> NoTalk]
    /\ panel = [t \in Tabs |-> Shown(settings)]
    /\ proved = [relay |-> NoRelay, password |-> NoPassword]
    /\ overlapped = FALSE
    /\ count = [saves |-> 0, tests |-> 0, alerts |-> 0, crashes |-> 0]

RelayNext ==
    \/ \E t \in Talkers : Answered(t) \/ Refused(t)
    \/ \E t \in Tabs :
         \/ Save(t) \/ SendTest(t) \/ Remove(t) \/ ToggleEditing(t)
         \/ SaveCut(t) \/ RemoveCut(t)
         \/ \E f \in Forms, typed \in Passwords \cup {NoPassword} : Type(t, f, typed)
    \/ SendToOwner
    \/ Crash

RelaySpec == RelayInit /\ [][RelayNext]_relayVars

-----------------------------------------------------------------------------
(* A login is never sent before the connection is encrypted, unless the    *)
(* owner accepted an insecure relay (openAuthenticated, validateSmtpInput). *)
Secured(talk) ==
    \E i \in 1 .. talk.at - 1 : Script(talk.kind, talk.with.relay)[i] = "handshake"
AtLogin(talk) ==
    Script(talk.kind, talk.with.relay)[talk.at] \in {"AUTH PLAIN", "username", "password"}

LoginIsProtected ==
    \A t \in Talkers :
      Busy(t) /\ AtLogin(talks[t]) => Secured(talks[t]) \/ talks[t].with.relay.insecure

(* A configured relay has a username exactly when it refers to a password, *)
(* and a login is never tried with a password that is not there, a stop    *)
(* half-way through a change included (save, remove, readStoredRelay).     *)
NeverHalfACredential ==
    /\ settings.relay = NoRelay => ~settings.ref
    /\ settings.relay # NoRelay => (settings.relay.user <=> settings.ref)
    /\ \A t \in Talkers :
         Busy(t) => (talks[t].with.relay.user <=> talks[t].with.password # NoPassword)

(* "Verified" is said of the relay that is stored, the one a conversation   *)
(* went through with: where no two of them overlapped and Suite Manager did *)
(* not die, else not (suite-manager-store.cjs:820-824).                     *)
VerdictIsAboutTheRelay == settings.verdict = "verified" => proved = Stored
VerifiedIsStored == (~overlapped /\ count.crashes = 0) => VerdictIsAboutTheRelay

RelayIsSound == LoginIsProtected /\ NeverHalfACredential /\ VerifiedIsStored
=============================================================================
