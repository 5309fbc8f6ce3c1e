----------------------------- MODULE ConsentPrompt -----------------------------
(***************************************************************************)
(* Asking the foreground caller for consent to repair a setup               *)
(* (src/nix/control/hook_prompt.go, src/scripts/setup_channel.py and the    *)
(* authorize of setup_readiness.py).  Requesters, perhaps in containers,    *)
(* exchange files with the one process that owns the terminal; each side    *)
(* shows by a changing file that it lives, and takes the other for dead     *)
(* when that file stays the same.                                           *)
(***************************************************************************)
EXTENDS Integers, Sequences, FiniteSets

CONSTANTS Requester, MaxLines \* lines the user types

ASSUME ConsentAssumption == IsFiniteSet(Requester) /\ MaxLines \in Nat

VARIABLES asking,     \* asking[r]: what the requester does
          incoming,   \* its directory: "none", "alive" (no question yet) or "question"
          beating,    \* its heartbeat changed within the owner's limit
          outgoing,   \* the answer written for it, "none" before
          conclusion, \* what it concluded
          server,     \* the serving loop: "off", "scans", "shows", "reads", "ended"
          current,    \* the request it serves
          typed,      \* lines in the terminal's buffer
          lines,      \* lines typed so far, and how many of them say yes
          yes,
          beats,      \* the owner's heartbeat changed within the requesters' limit
          channel     \* the directory exists

consentVars == <<asking, incoming, beating, outgoing, conclusion, server, current, typed, lines,
                 yes,
                 beats, channel>>
askState == <<asking, incoming, beating, conclusion>>
ttyState == <<typed, lines, yes>>
ownerState == <<outgoing, server, current, beats, channel>>
NoRequest == "no request"

ConsentTypeOK ==
  /\ asking \in [Requester -> {"idle", "waits", "dead", "done"}]
  /\ incoming \in [Requester -> {"none", "alive", "question"}]
  /\ beating \in [Requester -> BOOLEAN] /\ outgoing \in [Requester -> {"none", "yes", "no"}]
  /\ conclusion \in [Requester -> {"none", "yes", "no", "error"}]
  /\ server \in {"off", "scans", "shows", "reads", "ended"}
  /\ current \in Requester \cup {NoRequest}
  /\ \A i \in DOMAIN typed : typed[i] \in {"yes", "no", "hangup"}
  /\ lines \in 0..MaxLines /\ yes \in 0..MaxLines /\ beats \in BOOLEAN /\ channel \in BOOLEAN

ConsentInit ==
  /\ asking = [r \in Requester |-> "idle"] /\ incoming = [r \in Requester |-> "none"]
  /\ beating = [r \in Requester |-> TRUE] /\ outgoing = [r \in Requester |-> "none"]
  /\ conclusion = [r \in Requester |-> "none"] /\ server = "off" /\ current = NoRequest
  /\ typed = <<>> /\ lines = 0 /\ yes = 0 /\ beats = FALSE /\ channel = FALSE

----------------------------------------------------------------------------
(* The owner: hookPrompt.                                                  *)
\* Without the foreground no channel is made: requesters then get an error.
OpenChannel(foreground) ==
  /\ server = "off"
  /\ server' = IF foreground THEN "scans" ELSE "ended"
  /\ channel' = foreground /\ beats' = foreground
  /\ UNCHANGED <<askState, outgoing, current, ttyState>>
\* Its heartbeat has a goroutine of its own: a question that is open does not stop it.
BeatOwner ==
  /\ server \in {"scans", "shows", "reads"} /\ ~beats /\ beats' = TRUE
  /\ UNCHANGED <<askState, outgoing, server, current, channel, ttyState>>

\* Mutated form: a request that was answered is served again.
Unanswered_Wrong(r) == TRUE
Unanswered(r) == outgoing[r] = "none"

\* consentLease.alive: a heartbeat seen for the first time counts as new.
TakeRequest(r) ==
  /\ server = "scans" /\ incoming[r] = "question" /\ Unanswered(r)
  /\ current' = r /\ server' = "shows"
  /\ UNCHANGED <<askState, outgoing, ttyState, beats, channel>>
ShowQuestion ==
  /\ server = "shows" /\ server' = "reads"
  /\ UNCHANGED <<askState, outgoing, current, ttyState, beats, channel>>

Answer(value) ==
  /\ outgoing' = [outgoing EXCEPT ![current] = value]
  /\ server' = "scans" /\ current' = NoRequest

\* Mutated form: the terminal's end counts as the default answer.
Consents_Wrong(line) == line # "no"
\* hookAnswer: an empty line, "y" and "yes" consent; a closed terminal does not.
Consents(line) == line = "yes"

\* Mutated form: the line stays in the buffer.
Rest_Wrong(line, rest) == <<line>> \o rest
Rest(line, rest) == rest

ReadAnswer ==
  /\ server = "reads" /\ typed # <<>>
  /\ Answer(IF Consents(typed[1]) THEN "yes" ELSE "no")
  /\ typed' = Rest(typed[1], [i \in 1..(Len(typed) - 1) |-> typed[i + 1]])
  /\ UNCHANGED <<askState, lines, yes, beats, channel>>
\* The requester shows no life any more, or its directory is gone.
GiveUp ==
  /\ server = "reads" /\ (incoming[current] = "none" \/ ~beating[current]) /\ Answer("no")
  /\ UNCHANGED <<askState, ttyState, beats, channel>>
\* The wrapped command ended: the question that is open is answered no, the channel removed.
CloseChannel ==
  /\ server \in {"scans", "shows", "reads"} /\ server' = "ended"
  /\ outgoing' = [r \in Requester |-> "none"] /\ channel' = FALSE /\ current' = NoRequest
  /\ beats' = FALSE
  /\ UNCHANGED <<askState, ttyState>>

----------------------------------------------------------------------------
(* A requester: authorize, and request of setup_channel.py.                *)
Conclude(r, value) ==
  /\ conclusion' = [conclusion EXCEPT ![r] = value] /\ asking' = [asking EXCEPT ![r] = "done"]
  /\ incoming' = [incoming EXCEPT ![r] = "none"] /\ UNCHANGED beating
MakeRequest(r) ==
  /\ asking[r] = "idle" /\ channel /\ asking' = [asking EXCEPT ![r] = "waits"]
  /\ incoming' = [incoming EXCEPT ![r] = "alive"]
  /\ UNCHANGED <<beating, conclusion, ownerState, ttyState>>
WriteQuestion(r) ==
  /\ asking[r] = "waits" /\ incoming[r] = "alive"
  /\ incoming' = [incoming EXCEPT ![r] = "question"]
  /\ UNCHANGED <<asking, beating, conclusion, ownerState, ttyState>>
BeatRequester(r) ==
  /\ asking[r] = "waits" /\ ~beating[r] /\ beating' = [beating EXCEPT ![r] = TRUE]
  /\ UNCHANGED <<asking, incoming, conclusion, ownerState, ttyState>>
PollAnswer(r) ==
  /\ asking[r] = "waits" /\ incoming[r] = "question" /\ channel /\ outgoing[r] # "none"
  /\ Conclude(r, outgoing[r])
  /\ UNCHANGED <<ownerState, ttyState>>
\* The owner shows no life, its channel is gone, or there never was one.
OwnerSilent(r) ==
  /\ asking[r] \in {"idle", "waits"} /\ server # "off" /\ (~channel \/ ~beats)
  /\ Conclude(r, "error")
  /\ UNCHANGED <<ownerState, ttyState>>

----------------------------------------------------------------------------
(* The user, the scheduler, and requesters that are killed.                *)
TypeLine(line) ==
  /\ server # "off" /\ lines < MaxLines /\ lines' = lines + 1
  /\ typed' = Append(typed, line) /\ yes' = IF line = "yes" THEN yes + 1 ELSE yes
  /\ UNCHANGED <<askState, ownerState>>
\* Ten seconds pass without a heartbeat: the process was stopped, or is dead.
Stall(r) ==
  /\ incoming[r] # "none" /\ beating[r] /\ beating' = [beating EXCEPT ![r] = FALSE]
  /\ UNCHANGED <<asking, incoming, conclusion, ownerState, ttyState>>
StallOwner ==
  /\ beats /\ beats' = FALSE
  /\ UNCHANGED <<askState, outgoing, server, current, channel, ttyState>>
KillRequester(r) ==
  /\ asking[r] = "waits" /\ asking' = [asking EXCEPT ![r] = "dead"]
  /\ UNCHANGED <<incoming, beating, conclusion, ownerState, ttyState>>

ConsentNext ==
  \/ (\E b \in BOOLEAN : OpenChannel(b)) \/ BeatOwner \/ ShowQuestion \/ ReadAnswer \/ GiveUp
  \/ CloseChannel \/ StallOwner
  \/ (\E line \in {"yes", "no", "hangup"} : TypeLine(line))
  \/ \E r \in Requester :
       \/ TakeRequest(r) \/ MakeRequest(r) \/ WriteQuestion(r) \/ BeatRequester(r)
       \/ PollAnswer(r) \/ OwnerSilent(r) \/ Stall(r) \/ KillRequester(r)
ConsentSpec == ConsentInit /\ [][ConsentNext]_consentVars

----------------------------------------------------------------------------
(* Every consent was typed: no more requesters get a yes than the user typed *)
(* lines that say yes, so one line never authorizes two repairs and a        *)
(* terminal that closes authorizes none.                                    *)
ConsentIsTyped ==
  Cardinality({r \in Requester : conclusion[r] = "yes" \/ outgoing[r] = "yes"}) <= yes

(* An answer a requester can read never turns into the other one.           *)
AnswerStands ==
  [][\A r \in Requester :
       outgoing[r] # "none" => outgoing'[r] \in {outgoing[r], "none"}]_consentVars
=============================================================================
