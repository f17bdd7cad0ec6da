----------------------------- MODULE Generation -----------------------------
(***************************************************************************)
(* Generation of conversations: POST generate-weekly and generate-custom.  *)
(* A request picks pairs of personas, asks the language model for each in  *)
(* turn and flushes a session per pair; one commit at the end saves them   *)
(* all.  A flush whose persona has been deleted meanwhile fails, and with  *)
(* it the request's transaction: the exception is caught, but no later     *)
(* statement of the request succeeds.                                      *)
(***************************************************************************)
EXTENDS Integers, FiniteSets, SequencesExt

CONSTANTS Makers,       \* requests served at the same time
          RoleOf,       \* persona -> role; personas sort by number, as their labels do
          Whitelist,    \* DISTRIBUTION_ACTIVE_ACCOUNT_LABELS
          Picks,      \* the sets of senders people pick in the custom form
          RetryMax,     \* max_attempts, which is at least 1
          MinuteMax, MinuteWindow, DayMax, DayWindow,
          MaxNow, MaxChanges   \* bounds: the clock, changes of personas

ASSUME GenerationAssumption == /\ {MinuteMax, MinuteWindow, DayMax, DayWindow, MaxNow, MaxChanges} \subseteq Nat
                               /\ RetryMax \in Nat \ {0} /\ DOMAIN RoleOf \subseteq Nat \ {0}

VARIABLES people,    \* persona -> is it there, active, with credentials, logged in
          made,      \* distribution_sessions, as far as a generation fills them
          makers,    \* request -> what it has read and flushed and not committed
          buckets,   \* _rate_buckets of one user: kind -> times of the calls let through
          admitted,  \* history: times of the calls that passed both limits
          now, changes,
          told       \* the sessions reported in the last step
genVars == <<people, made, makers, buckets, admitted, now, changes, told>>

Persona == DOMAIN RoleOf
Maker(op, todo, with, seen) == [op |-> op, todo |-> todo, with |-> with, seen |-> seen,
                                tries |-> 0, poisoned |-> FALSE, flushed |-> <<>>]
NoMaker == Maker("none", {}, 0, <<>>)
Silent == told' = <<>>
First(S) == CHOOSE p \in S : \A o \in S : p <= o

GenerationInit == /\ people = [p \in Persona |-> [there |-> TRUE, active |-> TRUE, cred |-> TRUE, login |-> TRUE]]
                  /\ made = <<>>
                  /\ makers = [r \in Makers |-> NoMaker]
                  /\ buckets = [k \in {"minute", "day"} |-> <<>>]
                  /\ admitted = <<>> /\ now = 0 /\ changes = 0 /\ told = <<>>

(* ---- check_rate_limit: times older than the window go, then the calls left are counted ---- *)
\* Mutant: a call of exactly the window's age is forgotten.
PrunedAll(times, window) == SelectSeq(times, LAMBDA t : t > now - window)
\* From the front, up to the first that is not too old.
Outdated(times, window) == {i \in DOMAIN times : \A k \in 1 .. i : times[k] < now - window}
Pruned(times, window) == SubSeq(times, Cardinality(Outdated(times, window)) + 1, Len(times))
Admits(times, max, window) == Len(Pruned(times, window)) < max
Taken(times, max, window) == IF Admits(times, max, window) THEN Append(Pruned(times, window), now) ELSE Pruned(times, window)
\* _enforce_generation_limit: the minute takes its slot before the day is asked.
WithinLimit == Admits(buckets["minute"], MinuteMax, MinuteWindow) /\ Admits(buckets["day"], DayMax, DayWindow)
EnforceGenerationLimit ==
  buckets' = [k \in DOMAIN buckets |->
                CASE k = "minute" -> Taken(buckets[k], MinuteMax, MinuteWindow)
                  [] k = "day" /\ Admits(buckets["minute"], MinuteMax, MinuteWindow) -> Taken(buckets[k], DayMax, DayWindow)
                  [] OTHER -> buckets[k]]
Refused == /\ ~WithinLimit
           /\ EnforceGenerationLimit
           /\ Silent /\ UNCHANGED <<people, made, makers, admitted, now, changes>>

(* ---- personas change meanwhile ---- *)
Change == changes < MaxChanges /\ changes' = changes + 1 /\ UNCHANGED <<made, makers, buckets, admitted, now>> /\ Silent
UpdatePersona(p) == people[p].there /\ people' = [people EXCEPT ![p].active = ~@] /\ Change
CredentialsChange(p) == people[p].there /\ people[p].login /\ people' = [people EXCEPT ![p].login = FALSE] /\ Change
\* ON DELETE RESTRICT; the row lock of an uncommitted session makes the deletion wait.
Uses(s, p) == \E i \in DOMAIN s : p \in {s[i].sender, s[i].receiver}
PersonaGoes(p) == /\ people[p].there
                  /\ ~Uses(made, p) /\ \A r \in Makers : ~Uses(makers[r].flushed, p)
                  /\ people' = [people EXCEPT ![p].there = FALSE]
                  /\ Change

(* ---- a request ---- *)
ActiveByRole(role) ==
  LET all == {p \in Persona : people[p].there /\ people[p].active /\ RoleOf[p] = role}
      white == all \cap Whitelist
  IN IF white = {} THEN all ELSE white
Start(r, q) == /\ makers[r].op = "none" /\ WithinLimit
               /\ EnforceGenerationLimit
               /\ makers' = [makers EXCEPT ![r] = q]
               /\ admitted' = Append(admitted, now)
               /\ Silent /\ UNCHANGED <<people, made, now, changes>>
\* Every domestic persona with credentials writes to the first Vietnamese one; without it nobody does.
BeginWeekly(r) ==
  LET kr == ActiveByRole("domestic_admin")
      vn == ActiveByRole("vietnam_admin")
  IN Start(r, IF kr = {} \/ vn = {} THEN Maker("weekly", {}, 0, <<>>)
              ELSE Maker("weekly", {p \in kr : people[First(vn)].cred /\ people[p].cred}, First(vn), <<>>))
\* Rows once read are not read again in the request: seen.
BeginCustom(r, ids) ==
  LET found == {p \in ids \cap Persona : people[p].there}
  IN Start(r, Maker("custom", found, 0, [p \in found |-> people[p]]))
Ready(q, p) == LET row == IF p \in DOMAIN q.seen THEN q.seen[p] ELSE people[p]
               IN row.cred /\ row.login
\* _pick_counterpart: of the active personas that can write, one of the other role if there is one.
Counterparts(q, s) == {p \in Persona \ {s} : people[p].there /\ people[p].active /\ Ready(q, p)}
PickCounterpart(q, s) ==
  LET all == Counterparts(q, s)
      opposite == {p \in all : RoleOf[p] # RoleOf[s]}
      best == IF opposite = {} THEN all ELSE opposite
  IN IF all = {} THEN 0 ELSE First(best)
\* The senders are taken by label.
NextPair(q) == [q EXCEPT !.todo = @ \ {First(@)}, !.tries = 0, !.with = IF q.op = "weekly" THEN @ ELSE 0]
\* The sender is skipped, or a counterpart is chosen for it.
Pair(r) ==
  LET q == makers[r]
      s == First(q.todo)
      with == IF q.seen[s].active /\ Ready(q, s) THEN PickCounterpart(q, s) ELSE 0
      read == {p \in Persona \ DOMAIN q.seen : people[p].there /\ people[p].active /\ q.seen[s].active /\ Ready(q, s)}
      then == [q EXCEPT !.with = with, !.seen = [p \in DOMAIN @ \cup read |-> IF p \in DOMAIN @ THEN @[p] ELSE people[p]]]
  IN /\ q.op = "custom" /\ q.todo # {} /\ q.with = 0
     /\ ~q.poisoned
     /\ makers' = [makers EXCEPT ![r] = IF with = 0 THEN NextPair(then) ELSE then]
     /\ Silent /\ UNCHANGED <<people, made, buckets, admitted, now, changes>>
\* generate_conversation: an answer that is no valid conversation is asked for again.
Session(q) == [sender |-> First(q.todo), receiver |-> q.with, cost |-> q.tries + 1]
BadAnswer(r) ==
  LET q == makers[r]
  IN /\ q.todo # {} /\ q.with # 0 /\ ~q.poisoned
     /\ makers' = [makers EXCEPT ![r] = IF q.tries + 1 < RetryMax THEN [q EXCEPT !.tries = @ + 1] ELSE NextPair(q)]
     /\ Silent /\ UNCHANGED <<people, made, buckets, admitted, now, changes>>
\* The language model cannot be called at all: the next pair is tried.
CallFails(r) ==
  /\ makers[r].todo # {} /\ makers[r].with # 0 /\ ~makers[r].poisoned
  /\ makers' = [makers EXCEPT ![r] = NextPair(makers[r])]
  /\ Silent /\ UNCHANGED <<people, made, buckets, admitted, now, changes>>
GoodAnswer(r) ==
  LET q == makers[r]
      s == Session(q)
  IN /\ q.todo # {} /\ q.with # 0 /\ ~q.poisoned
     /\ makers' = [makers EXCEPT ![r] = IF people[s.sender].there /\ people[s.receiver].there
                                        THEN [NextPair(q) EXCEPT !.flushed = Append(@, s)]
                                        ELSE [NextPair(q) EXCEPT !.poisoned = TRUE]]
     /\ Silent /\ UNCHANGED <<people, made, buckets, admitted, now, changes>>
\* Mutant: a failed commit leaves the list of the sessions as it was.
AnswerOfFailedCommitKept(q) == q.flushed
AnswerOfFailedCommit(q) == <<>>
\* Nothing made: rollback.  A transaction that broke: the commit fails and nothing is reported as made.
Commit(r) ==
  LET q == makers[r]
  IN /\ q.op # "none" /\ (q.todo = {} \/ q.poisoned)
     /\ IF q.poisoned THEN made' = made /\ told' = AnswerOfFailedCommit(q)
                      ELSE made' = made \o q.flushed /\ told' = q.flushed
     /\ makers' = [makers EXCEPT ![r] = NoMaker]
     /\ UNCHANGED <<people, buckets, admitted, now, changes>>
Pass == now < MaxNow /\ now' = now + 1 /\ Silent /\ UNCHANGED <<people, made, makers, buckets, admitted, changes>>

GenerationNext ==
  \/ \E r \in Makers :
       \/ BeginWeekly(r)
       \/ \E ids \in Picks : BeginCustom(r, ids)
       \/ Pair(r)
       \/ BadAnswer(r)
       \/ CallFails(r)
       \/ GoodAnswer(r)
       \/ Commit(r)
  \/ \E p \in Persona : UpdatePersona(p) \/ CredentialsChange(p) \/ PersonaGoes(p)
  \/ Refused
  \/ Pass

GenerationSpec == GenerationInit /\ [][GenerationNext]_genVars

(***************************************************************************)
(* What a generation reports it made is what is in the table afterwards,   *)
(* also when a persona is deleted while the model writes: at most one      *)
(* session per sender, between two different personas that are there, at   *)
(* the cost of all attempts; and what it does not report is not there.     *)
(***************************************************************************)
BatchIsTold ==
  [][/\ made' = made \o told'
     /\ \A i, j \in DOMAIN told' : i # j => told'[i].sender # told'[j].sender
     /\ \A i \in DOMAIN told' :
          LET s == told'[i]
          IN s.sender # s.receiver /\ people[s.sender].there /\ people[s.receiver].there /\ s.cost \in 1 .. RetryMax
     ]_genVars

(***************************************************************************)
(* check_rate_limit: whatever a user tries, and with two limits that share *)
(* their calls, no window of its length holds more calls than a limit.     *)
(***************************************************************************)
WindowHolds ==
  \A t \in 0 .. now :
    /\ Cardinality({i \in DOMAIN admitted : admitted[i] \in t - MinuteWindow .. t}) <= MinuteMax
    /\ Cardinality({i \in DOMAIN admitted : admitted[i] \in t - DayWindow .. t}) <= DayMax
=============================================================================
