------------------------------ MODULE LogConvey ------------------------------
(***************************************************************************)
(* The requests to move logs (TransLogConvey, trans_log_convey.cpp) on top *)
(* of the convey workshop, and the events the main thread hands to it:     *)
(* finished units, changes of the storage media, canceled requests, the    *)
(* clearing of all logs.                                                   *)
(*                                                                         *)
(* The main thread is in one operation at a time (doing).  An operation    *)
(* that goes through a queue of units does so in steps, between which the  *)
(* work routines run: the next unit is taken (stage "next"), its client    *)
(* called ("callback"), the client's successor started if it finished      *)
(* ("finished"), the client table cleaned up ("tidy").                     *)
(***************************************************************************)
EXTENDS ConveyWorkshop

CONSTANTS
  UnitsOf,       \* the units each client asks for
  Kinds,         \* the kinds of events that happen: "change" of the current medium,
                 \* "inactive" medium, "cancel" of a request, "clear" of all logs
  MaxEvents      \* bound: how many of them

ASSUME ConveyAssumption ==
  /\ UnitsOf \in [Clients -> SUBSET Units]
  /\ \A c \in Clients : UnitsOf[c] # {}
  /\ \A c, d \in Clients : c # d => UnitsOf[c] \cap UnitsOf[d] = {}
  /\ Kinds \subseteq {"change", "inactive", "cancel", "clear"}
  /\ MaxEvents \in Nat

VARIABLES
  media,            \* StorageManager::m_current_storage
  semi_material,    \* raw material taken aside by an operation
  doing,            \* the operation the main thread is in
  arg,              \* the medium, the tag or the number of answers it is about
  item,             \* the unit in the main thread's hands
  stage,            \* how far it has got with it
  state_,           \* Transaction::state_ of each request
  result_,          \* Transaction::result_
  item_num_,        \* its units that are not reported yet
  fail_num_,        \* its units that failed
  spent             \* the kinds of the events that have happened

mainVars == <<media, semi_material, doing, arg, item, stage>>
requestVars == <<state_, result_, item_num_, fail_num_>>
vars == <<shopVars, mainVars, requestVars, spent>>

TypeOK ==
  /\ ShopTypeOK
  /\ media \in Media \cup {NoMedia}
  /\ semi_material \in Seq(Units)
  /\ doing \in {"loop", "process", "changed", "inactive", "cancel", "clear", "crashed"}
  /\ arg \in Nat \cup Media \cup {NoMedia}
  /\ item \in Units \cup {NoUnit}
  /\ stage \in {"next", "callback", "finished", "tidy"}
  /\ state_ \in [Clients -> {"TS_NOT_BEGIN", "TS_EXECUTING", "TS_FINISHED", "TS_CANCELED"}]
  /\ result_ \in [Clients -> {"TRANS_R_SUCCESS", "TRANS_R_FAILURE"}]
  /\ item_num_ \in [Clients -> Nat]
  /\ fail_num_ \in [Clients -> Nat]
  /\ spent \in Seq(Kinds) /\ Len(spent) <= MaxEvents

Init ==
  /\ ShopInit
  /\ media \in Media
  /\ semi_material = <<>>
  /\ doing = "loop"
  /\ arg = NoMedia
  /\ item = NoUnit
  /\ stage = "next"
  /\ state_ = [c \in Clients |-> "TS_NOT_BEGIN"]
  /\ result_ = [c \in Clients |-> "TRANS_R_SUCCESS"]
  /\ item_num_ = [c \in Clients |-> 0]
  /\ fail_num_ = [c \in Clients |-> 0]
  /\ spent = <<>>

Spend(kind) == kind \in Kinds /\ Len(spent) < MaxEvents /\ spent' = Append(spent, kind)
Idle == doing = "loop" /\ stage = "next"
Enter(operation, about) == doing' = operation /\ arg' = about
Owner(u) == CHOOSE c \in Clients : u \in UnitsOf[c]

------------------------------------------------------------------------------
(* The requests.                                                           *)

\* add_units() and execute(), from a handler, or from the callback of a request
\* that has finished (CpConveyManager::trans_finished): units to move files from
\* one medium to the current one, or to copy to it from outside.
Execute(c) ==
  /\ doing = "loop" \/ stage = "finished"
  /\ state_[c] = "TS_NOT_BEGIN"
  /\ media # NoMedia
  /\ \E src \in Media \ {media} : AttachRequest(c, SetToSeq(UnitsOf[c]), src, media)
  /\ state_' = [state_ EXCEPT ![c] = "TS_EXECUTING"]
  /\ item_num_' = [item_num_ EXCEPT ![c] = Cardinality(UnitsOf[c])]
  /\ UNCHANGED <<products, feedback, holding, fb, mainVars, result_, fail_num_, spent>>

\* finish(), when nothing is left.
Finish(c, left, failed) ==
  /\ state_' = [state_ EXCEPT ![c] = IF left = 0 THEN "TS_FINISHED" ELSE @]
  /\ result_' = [result_ EXCEPT ![c] = IF left = 0 /\ failed > 0 THEN "TRANS_R_FAILURE" ELSE @]
  /\ stage' = IF left = 0 THEN "finished" ELSE "tidy"

\* unit_finish() of a unit that is over: conveyed, failed, or without destination.
\* Fault: a source that vanished does not count as a failure.
FailedStates_few == {"Failed", "DestVanish"}
FailedStates == {"Failed", "SrcVanish", "DestVanish"}

UnitOver(c) ==
  /\ stage = "callback"
  /\ c = client_table[unit[item].tag].client
  /\ item_num_[c] > 0
  /\ LET state == unit[item].state
         left == item_num_[c] - 1
         failed == fail_num_[c] + (IF state \in FailedStates THEN 1 ELSE 0)
     IN /\ state \notin {"CommonDestVanish", "CommonDestChange"}
        /\ item_num_' = [item_num_ EXCEPT ![c] = left]
        /\ fail_num_' = [fail_num_ EXCEPT ![c] = failed]
        /\ Finish(c, left, failed)
  /\ UNCHANGED <<shopVars, media, semi_material, doing, arg, item, spent>>

\* ... and of a unit whose destination is the current medium, which has changed:
\* it starts again, if the new one can be used and is not its source.
UnitAgain(c) ==
  /\ stage = "callback"
  /\ c = client_table[unit[item].tag].client
  /\ item_num_[c] > 0
  /\ unit[item].state \in {"CommonDestVanish", "CommonDestChange"}
  /\ \/ /\ media # NoMedia /\ unit[item].src # media
        /\ AddNewUnit(unit[item].tag, item, media)
        /\ stage' = "tidy"
        /\ UNCHANGED <<state_, result_, item_num_, fail_num_, subscribed>>
     \/ /\ item_num_' = [item_num_ EXCEPT ![c] = @ - 1]
        /\ fail_num_' = [fail_num_ EXCEPT ![c] = @ + 1]
        /\ Finish(c, item_num_'[c], fail_num_'[c])
        /\ UNCHANGED <<client_table, subscribed, raw_material, messages, worker, unit>>
  /\ UNCHANGED <<products, feedback, holding, fb, media, semi_material, doing, arg, item, spent>>

\* The callback of a finished request returns.
RequestDone ==
  /\ stage = "finished"
  /\ stage' = "tidy"
  /\ UNCHANGED <<shopVars, media, semi_material, doing, arg, item, requestVars, spent>>

------------------------------------------------------------------------------
(* item_done()                                                             *)

\* A unit is taken and counted down, and its client called if it still has one.
ItemDone(u) ==
  IF Registered(u)
  THEN /\ CountDown(unit[u].tag)
       /\ item' = u
       /\ stage' = IF client_table[unit[u].tag].client # NoClient THEN "callback" ELSE "tidy"
  ELSE UNCHANGED <<client_table, item, stage>>

ItemTidy ==
  /\ stage = "tidy"
  /\ Tidy(unit[item].tag)
  /\ item' = NoUnit
  /\ stage' = "next"
  /\ UNCHANGED <<raw_material, products, messages, feedback, routineVars, unit, media,
                 semi_material, doing, arg, requestVars, spent>>

------------------------------------------------------------------------------
(* process(): the products.                                                *)

Process ==
  /\ Idle
  /\ feedback # <<>>
  /\ feedback' = Tail(feedback)
  /\ doing' = IF Head(feedback) = "ItemFinish" THEN "process" ELSE doing
  /\ UNCHANGED <<client_table, subscribed, raw_material, products, messages, routineVars, unit,
                 media, semi_material, arg, item, stage, requestVars, spent>>

ProcessNext ==
  /\ doing = "process" /\ stage = "next"
  /\ IF products = <<>>
     THEN doing' = "loop" /\ UNCHANGED <<products, client_table, item, stage>>
     ELSE /\ ItemDone(Head(products))
          /\ products' = Tail(products)
          /\ UNCHANGED doing
  /\ UNCHANGED <<subscribed, raw_material, messages, feedback, routineVars, unit,
                 media, semi_material, arg, requestVars, spent>>

------------------------------------------------------------------------------
(* current_media_changed(), media_inactive(), cancel_client()              *)

\* The raw material is taken aside, and the routines are told why.  Fault: they are not.
TakeAside_silent(event, about) ==
  /\ semi_material' = raw_material
  /\ raw_material' = <<>>
  /\ UNCHANGED <<messages, worker, products, feedback, holding, fb>>

TakeAside(event, about) ==
  /\ semi_material' = raw_material
  /\ raw_material' = <<>>
  /\ Post(event, about)
  /\ UNCHANGED <<products, feedback, holding, fb>>

\* The current medium becomes new, and the subscribers are told, of no medium too.
SwitchTo(new) ==
  /\ media' = new
  /\ IF subscribed /\ new # NoMedia
     THEN Enter("changed", new) /\ TakeAside("CommonDestChange", new)
     ELSE /\ Enter("loop", NoMedia)
          /\ UNCHANGED <<semi_material, raw_material, messages, products, feedback, routineVars>>

CurrentMediaChanged ==
  /\ Idle
  /\ Spend("change")
  /\ \E new \in (Media \cup {NoMedia}) \ {media} : SwitchTo(new)
  /\ UNCHANGED <<client_table, subscribed, unit, item, stage, requestVars>>

MediaInactive ==
  /\ Idle
  /\ Spend("inactive")
  /\ subscribed
  /\ \E m \in Media : Enter("inactive", m) /\ TakeAside("Vanish", m)
  /\ UNCHANGED <<client_table, subscribed, unit, media, item, stage, requestVars>>

\* The units taken aside: what becomes of one when the event concerns it.
SemiState(u) ==
  CASE doing = "changed" /\ u \notin Fixed ->
         IF unit[u].src = arg THEN "Done" ELSE "CommonDestChange"
    [] doing = "inactive" /\ unit[u].src = arg -> "SrcVanish"
    [] doing = "inactive" /\ unit[u].src # arg /\ unit[u].dest = arg ->
         IF u \in Fixed THEN "DestVanish" ELSE "CommonDestVanish"
    [] OTHER -> "Wait"

SemiNext ==
  /\ doing \in {"changed", "inactive"} /\ stage = "next"
  /\ semi_material # <<>>
  /\ LET u == Head(semi_material) IN
     IF SemiState(u) = "Wait"
     THEN raw_material' = Append(raw_material, u) /\ UNCHANGED <<unit, client_table, item, stage>>
     ELSE /\ unit' = [unit EXCEPT ![u].state = SemiState(u)]
          /\ ItemDone(u)
          /\ UNCHANGED raw_material
  /\ semi_material' = Tail(semi_material)
  /\ UNCHANGED <<subscribed, products, messages, feedback, routineVars, media, doing, arg,
                 requestVars, spent>>

\* When the current medium was lost another one is looked for.
SemiEnd ==
  /\ doing \in {"changed", "inactive"} /\ stage = "next"
  /\ semi_material = <<>>
  /\ IF doing = "inactive" /\ arg = media
     THEN \E new \in (Media \cup {NoMedia}) \ {media} : SwitchTo(new)
     ELSE /\ Enter("loop", NoMedia)
          /\ UNCHANGED <<media, semi_material, raw_material, messages, products, feedback, routineVars>>
  /\ UNCHANGED <<client_table, subscribed, unit, item, stage, requestVars, spent>>

Cancel(c) ==
  /\ Idle
  /\ Spend("cancel")
  /\ state_[c] = "TS_EXECUTING"
  /\ \E tag \in DOMAIN client_table :
       /\ client_table[tag].client = c
       /\ client_table' = [client_table EXCEPT ![tag].client = NoClient]
       /\ Enter("cancel", tag)
       /\ TakeAside("Cancel", tag)
  /\ state_' = [state_ EXCEPT ![c] = "TS_CANCELED"]
  /\ item_num_' = [item_num_ EXCEPT ![c] = 0]
  /\ UNCHANGED <<subscribed, unit, media, item, stage, result_, fail_num_>>

CancelNext_uncounted ==
  /\ doing = "cancel"
  /\ semi_material # <<>>
  /\ LET u == Head(semi_material) IN
       raw_material' = IF unit[u].tag = arg THEN raw_material ELSE Append(raw_material, u)
  /\ semi_material' = Tail(semi_material)
  /\ UNCHANGED <<client_table, subscribed, products, messages, feedback, routineVars, unit, media,
                 doing, arg, item, stage, requestVars, spent>>

CancelNext ==
  /\ doing = "cancel"
  /\ semi_material # <<>>
  /\ LET u == Head(semi_material) IN
     IF unit[u].tag = arg
     THEN CountDown(arg) /\ UNCHANGED raw_material
     ELSE raw_material' = Append(raw_material, u) /\ UNCHANGED client_table
  /\ semi_material' = Tail(semi_material)
  /\ UNCHANGED <<subscribed, products, messages, feedback, routineVars, unit, media, doing, arg,
                 item, stage, requestVars, spent>>

CancelEnd ==
  /\ doing = "cancel"
  /\ semi_material = <<>>
  /\ TidyCanceled(arg)
  /\ Enter("loop", NoMedia)
  /\ UNCHANGED <<raw_material, products, messages, feedback, routineVars, unit, media,
                 semi_material, item, stage, requestVars, spent>>

------------------------------------------------------------------------------
(* clear()                                                                 *)

\* The raw material is thrown away, and every routine asked to answer.
Clear ==
  /\ Idle
  /\ Spend("clear")
  /\ client_table # <<>>
  /\ raw_material' = <<>>
  /\ Post("Clean", 0)
  /\ Enter("clear", Cardinality(Workers))
  /\ UNCHANGED <<client_table, subscribed, products, feedback, holding, fb, unit, media,
                 semi_material, item, stage, requestVars>>

\* The main thread waits in poll() for the answers.  Fault: any byte counts.
ClearAnswer_any ==
  /\ doing = "clear" /\ arg > 0
  /\ feedback # <<>>
  /\ feedback' = Tail(feedback)
  /\ arg' = arg - 1
  /\ UNCHANGED <<client_table, subscribed, raw_material, products, messages, routineVars, unit,
                 media, semi_material, doing, item, stage, requestVars, spent>>

ClearAnswer ==
  /\ doing = "clear" /\ arg > 0
  /\ feedback # <<>>
  /\ feedback' = Tail(feedback)
  /\ arg' = IF Head(feedback) = "WorkRoutineClean" THEN arg - 1 ELSE arg
  /\ UNCHANGED <<client_table, subscribed, raw_material, products, messages, routineVars, unit,
                 media, semi_material, doing, item, stage, requestVars, spent>>

\* The products are thrown away, and every client in the table is called; an entry
\* that has none throws std::bad_function_call.
ClearEnd ==
  /\ doing = "clear" /\ arg = 0
  /\ products' = <<>>
  /\ LET called == {client_table[i].client : i \in DOMAIN client_table} IN
     IF NoClient \in called
     THEN /\ Enter("crashed", NoMedia)
          /\ UNCHANGED <<client_table, subscribed, state_, result_, item_num_>>
     ELSE /\ Enter("loop", NoMedia)
          /\ client_table' = <<>>
          /\ subscribed' = FALSE
          /\ item_num_' = [c \in Clients |-> IF c \in called THEN 0 ELSE item_num_[c]]
          /\ state_' = [c \in Clients |-> IF c \in called THEN "TS_FINISHED" ELSE state_[c]]
          /\ result_' = [c \in Clients |-> IF c \in called /\ fail_num_[c] > 0
                                           THEN "TRANS_R_FAILURE" ELSE result_[c]]
  /\ UNCHANGED <<raw_material, messages, feedback, routineVars, unit, media, semi_material,
                 item, stage, fail_num_, spent>>

------------------------------------------------------------------------------
RoutineStep == (\E w \in Workers : WorkRoutine(w)) /\ UNCHANGED <<mainVars, requestVars, spent>>

\* What the main thread does by itself, and what it does on a request or an event.
MainStep ==
  \/ Process \/ ProcessNext \/ SemiNext \/ SemiEnd \/ CancelNext \/ CancelEnd
  \/ ClearAnswer \/ ClearEnd \/ RequestDone \/ ItemTidy
  \/ \E c \in Clients : UnitOver(c) \/ UnitAgain(c)

EventStep ==
  \/ \E c \in Clients : Execute(c) \/ Cancel(c)
  \/ CurrentMediaChanged \/ MediaInactive \/ Clear

Next == RoutineStep \/ MainStep \/ EventStep

Spec == Init /\ [][Next]_vars

\* The work routines are threads and their reads and writes return; the main
\* thread's poll() reports the socket, and what it does ends.
FairSpec ==
  /\ Spec
  /\ \A w \in Workers : WF_vars(WorkRoutine(w) /\ UNCHANGED <<mainVars, requestVars, spent>>)
  /\ WF_vars(MainStep)

------------------------------------------------------------------------------
(* Properties.                                                             *)

\* A routine that has answered clear() goes on writing WorkRoutineClean, whatever it
\* has done (fb is not set back, convey_workshop.cpp:308): the bytes of units that are
\* finished answer the next clear() before the routines have come to its message.
FirstClear == \A i, j \in DOMAIN spent : spent[i] = "clear" /\ spent[j] = "clear" => i = j

\* How often unit u is in a queue, or in the hands of the routines.
Count(places, u) == Cardinality({i \in DOMAIN places : places[i] = u})
Occurrences(u) ==
  Count(raw_material, u) + Count(semi_material, u) + Count(products, u) + Count(holding, u)

\* A unit is reported to the request that asked for it, or to none.
ReportedToOwner ==
  stage = "callback" => client_table[unit[item].tag].client = Owner(item)

\* A unit is worked on by one routine at a time and is in one queue: it is moved
\* from queue to queue by the main thread, several routines and a second queue the
\* events take the raw material aside to.  (raw_material_, products_, semi_material,
\* current_raw, convey_workshop.cpp)
\* And it is reported to the request that asked for it, until a second clear().
UnitInOnePlace ==
  /\ TypeOK
  /\ \A u \in Units : Occurrences(u) <= 1
  /\ FirstClear => ReportedToOwner

\* A request counts what the workshop counts for it, though each counts by itself,
\* before and after units that start again: a request that executes has an entry with
\* as many units as it waits for, and no entry is that of another.  (item_num_, num_request)
RequestCountsUnits ==
  stage = "next" /\ doing # "crashed" =>
    /\ \A c \in Clients : state_[c] = "TS_EXECUTING" =>
         \E entry \in Range(client_table) : entry = [client |-> c, num |-> item_num_[c]]
    /\ \A entry \in Range(client_table) :
         entry.client # NoClient => state_[entry.client] = "TS_EXECUTING"

\* num_request of an entry counts its client's units that are under way, so that the
\* entry is given to another client only when no unit with its tag is left, and the
\* request counts the same; until a second clear(), which may leave units behind.
Outstanding(tag) == Cardinality({u \in Units : unit[u].tag = tag /\ Occurrences(u) > 0})
TableCountsUnits ==
  FirstClear =>
    /\ RequestCountsUnits
    /\ doing \notin {"clear", "crashed"} /\ stage = "next" =>
         /\ \A tag \in DOMAIN client_table : client_table[tag].num = Outstanding(tag)
         /\ \A u \in Units : Occurrences(u) > 0 => unit[u].tag \in DOMAIN client_table

\* When clear() has its answers no routine has a unit, and none will still answer:
\* it goes on to delete the directories the units point to.  This is so the first time.
ClearWaits ==
  FirstClear /\ doing = "clear" /\ arg = 0 =>
    \A w \in Workers :
      /\ holding[w] = NoUnit
      /\ \A i \in DOMAIN messages[w] : messages[w][i].event # "Clean"

\* No unit is conveyed to a medium that is no longer the current one without a
\* message that will stop it, as long as the workshop is told of the changes.
UnitsFollowMedium ==
  FirstClear /\ doing = "loop" /\ subscribed /\ media # NoMedia =>
    /\ \A w \in Workers :
         worker[w] = "convey" /\ holding[w] \notin Fixed /\ unit[holding[w]].dest # media =>
           \E i \in DOMAIN messages[w] :
             StateAfter(holding[w], messages[w][i]) # "OnGoing"
    /\ \A i \in DOMAIN raw_material :
         raw_material[i] \notin Fixed => unit[raw_material[i]].dest = media

\* A request that succeeds has all its files: each unit ended conveyed, whatever
\* media came and went while it was under way; until a request is canceled or all logs
\* are cleared, which units report as if they were conveyed.
SuccessMeansDone ==
  (\A i \in DOMAIN spent : spent[i] \notin {"cancel", "clear"}) =>
    \A c \in Clients :
      state_[c] = "TS_FINISHED" /\ result_[c] = "TRANS_R_SUCCESS" =>
        \A u \in UnitsOf[c] : unit[u].state = "Done"

\* Every request ends, whatever media came and went, unless each work routine sleeps
\* through a message it was not notified of.  (UnitDoneCallback, TransLogConvey::unit_finish)
Overslept == \A w \in Workers : worker[w] = "asleep" /\ messages[w] # <<>>
RequestEnds ==
  \A c \in Clients : state_[c] = "TS_EXECUTING" ~> state_[c] = "TS_FINISHED" \/ Overslept
==============================================================================
