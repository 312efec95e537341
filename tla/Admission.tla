----------------------------- MODULE Admission -----------------------------
(***************************************************************************)
(* Vouches on their way to a relay's verdict.  The vouch command signs one *)
(* (mdrn-core/src/identity/vouch.rs), a broadcaster reads it from a file   *)
(* and carries it in its announcement (mdrn-cli/src/main.rs, broadcast.rs),*)
(* a relay verifies it against its genesis keys (mdrn-cli/src/relay.rs,    *)
(* mdrn-core/src/identity/mod.rs).  Between any two of these it may expire,*)
(* and the commands differ in what they check.  Nothing in the source calls*)
(* the relay's verification but its tests: Decide is what a caller of      *)
(* RelayNode gets to know.                                                 *)
(*                                                                         *)
(* A vouch is genuine when its signature is its issuer's over its other    *)
(* fields: one that the vouch command has written.  A file may also hold   *)
(* anything else that parses, a forged or tampered vouch.  The machines    *)
(* share one clock, which never goes back.                                 *)
(***************************************************************************)
EXTENDS Integers, FiniteSets

CONSTANTS
    Identity,       \* keys of broadcasters and issuers
    Genesis,        \* genesis_keys of the relay's TrustChain
    Lifetime,       \* values of the --expires option
    Never,          \* expires_at of a vouch without it
    Forged,         \* what may be in a file and is not genuine
    NoVouch,        \* no file, or no announcement
    MaxTime,        \* bound: the clock stops here
    MaxVouches,     \* bound: vouches issued
    MaxVerdicts     \* bound: verdicts of the relay

ASSUME AdmissionAssumption ==
    /\ Genesis \subseteq Identity
    /\ Lifetime \subseteq Nat
    /\ Never \notin Nat
    /\ \A v \in Forged : /\ v.subject \in Identity
                         /\ v.issuer \in Identity
                         /\ v.expires \in Nat \cup {Never}
                         /\ v.genuine = FALSE
    /\ MaxTime \in Nat
    /\ MaxVouches \in Nat
    /\ MaxVerdicts \in Nat

VARIABLES
    now,            \* SystemTime::now
    relayMode,      \* network_mode of the relay
    issued,         \* vouches the vouch command has written
    announced,      \* the vouch in each broadcaster's announcement
    verdicts        \* history: verdicts of the relay and when they fell

vars == <<now, relayMode, issued, announced, verdicts>>

Mode    == {"testnet", "mainnet"}
Vouch   == [subject : Identity, issuer : Identity,
            expires : Nat \cup {Never}, genuine : BOOLEAN]

Init ==
    /\ now = 0
    /\ relayMode \in Mode
    /\ issued = {}
    /\ announced = [i \in Identity |-> NoVouch]
    /\ verdicts = {}
-----------------------------------------------------------------------------
Tick ==
    /\ now < MaxTime
    /\ now' = now + 1
    /\ UNCHANGED <<relayMode, issued, announced, verdicts>>

RequiresVouches(mode) == mode = "mainnet"

(* Vouch::verify: valid up to and including the second of its expiry, and  *)
(* signed by its issuer.                                                   *)
Verify(v) ==
    /\ v.expires # Never => now <= v.expires
    /\ v.genuine

Expiry(days) == IF days = Never THEN Never ELSE now + days

(* mdrn vouch: anyone may vouch for anyone, itself included.  The vouch is *)
(* verified before it is written.                                          *)
IssueVouch(issuer, subject, days) ==
    LET v == [subject |-> subject, issuer |-> issuer,
              expires |-> Expiry(days), genuine |-> TRUE]
    IN  /\ Cardinality(issued) < MaxVouches
        /\ Verify(v)
        /\ issued' = issued \cup {v}
        /\ UNCHANGED <<now, relayMode, announced, verdicts>>

(* A broadcast begins: its announcement carries the vouch as it is.        *)
Start(i, v) ==
    /\ announced' = [announced EXCEPT ![i] = v]
    /\ UNCHANGED <<now, relayMode, issued, verdicts>>

(* mdrn broadcast without --vouch-file, or on the testnet: what is in the  *)
(* default location goes through load_vouch_default; if it does not verify,*)
(* or is not there, the command ends, in either mode.                      *)
BroadcastDefault(i, found) ==
    /\ Verify(found)
    /\ Start(i, found)

(* Mutant: the vouch is taken to be about whoever brings it.               *)
BroadcastAsSubject(i, v) == Start(i, [v EXCEPT !.subject = i])

(* mdrn broadcast --mode mainnet --vouch-file F: the file is only parsed.  *)
BroadcastFrom(i, v) == Start(i, v)

(* The program exits and its announcement expires.                         *)
StopBroadcast(i) ==
    /\ announced' = [announced EXCEPT ![i] = NoVouch]
    /\ UNCHANGED <<now, relayMode, issued, verdicts>>

(* RelayNode::can_broadcaster_vouch                                        *)
CanVouch(i) == ~RequiresVouches(relayMode) \/ i \in Genesis

(* Mutant: verify is taken the wrong way round.                            *)
AdmissibleIfInvalid(i, v) ==
    \/ ~RequiresVouches(relayMode)
    \/ /\ ~Verify(v)
       /\ v.subject = i
       /\ i \in Genesis \/ v.issuer \in Genesis

(* Mutant: the relay trusts that whoever announced has verified the vouch. *)
AdmissibleUnverified(i, v) ==
    \/ ~RequiresVouches(relayMode)
    \/ /\ v.expires # Never => now <= v.expires
       /\ v.subject = i
       /\ i \in Genesis \/ v.issuer \in Genesis

(* RelayNode::verify_broadcaster_admission, and that of TrustChain.        *)
Admissible(i, v) ==
    \/ ~RequiresVouches(relayMode)
    \/ /\ Verify(v)
       /\ v.subject = i
       /\ i \in Genesis \/ v.issuer \in Genesis

(* The relay is asked about an announcement.                               *)
Decide(i) ==
    /\ announced[i] # NoVouch
    /\ Cardinality(verdicts) < MaxVerdicts
    /\ verdicts' = verdicts \cup
         {[who |-> i, vouch |-> announced[i], at |-> now,
           ok |-> Admissible(i, announced[i])]}
    /\ UNCHANGED <<now, relayMode, issued, announced>>
-----------------------------------------------------------------------------
Next ==
    \/ Tick
    \/ \E i, s \in Identity, days \in Lifetime \cup {Never} : IssueVouch(i, s, days)
    \/ \E i \in Identity :
         \/ \E v \in issued \cup Forged :
              BroadcastDefault(i, v) \/ BroadcastFrom(i, v)
         \/ StopBroadcast(i)
         \/ Decide(i)

Spec == Init /\ [][Next]_vars
-----------------------------------------------------------------------------
(* The type invariant.  What is announced and judged has been issued or    *)
(* forged, and a verdict lies in the past.                                 *)
TypeOK ==
    /\ now \in Nat
    /\ relayMode \in Mode
    /\ issued \subseteq Vouch
    /\ announced \in [Identity -> issued \cup Forged \cup {NoVouch}]
    /\ \A d \in verdicts : /\ d.who \in Identity
                          /\ d.vouch \in issued \cup Forged
                          /\ d.at \in 0..now
                          /\ d.ok \in BOOLEAN

(* Whoever a mainnet relay admits, by whatever way its vouch came into the *)
(* announcement, had been vouched for by the command, was meant, was not   *)
(* too late, and is a genesis broadcaster or was vouched for by somebody of*)
(* whom the relay says that he can vouch: trust never goes further than one*)
(* hop, and a forged vouch, which --vouch-file lets into announcements, is *)
(* of no use.                                                              *)
AdmissionIsEarned ==
    \A d \in verdicts :
        d.ok /\ RequiresVouches(relayMode) =>
            \E v \in issued :
                /\ v.subject = d.who
                /\ v.expires # Never => d.at <= v.expires
                /\ d.who \in Genesis \/ CanVouch(v.issuer)

(* A refusal is final: a relay that refused a broadcaster with some vouch  *)
(* never admits it with the same one later, so asking again is of no use.  *)
RefusalsAreFinal ==
    \A d, e \in verdicts :
        d.who = e.who /\ d.vouch = e.vouch /\ ~d.ok /\ d.at <= e.at => ~e.ok
=============================================================================
