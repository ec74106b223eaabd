--------------------------- MODULE ConveyWorkshop ---------------------------
(***************************************************************************)
(* ConveyWorkshop (convey_workshop.cpp): the work routines that move or    *)
(* copy log files in the background.  The main thread puts convey units in *)
(* a queue of raw material and tells every routine so; a routine takes one *)
(* unit after the other, pushes it to the products when it is done with it *)
(* and writes a byte to the feedback socket, on which the main thread      *)
(* takes the products and calls the client each belongs to.                *)
(*                                                                         *)
(* The operations of the main thread are given as constraints on the       *)
(* workshop's variables, the work routines as actions.  A unit is a model  *)
(* value; what it copies is left out.  The index of a client in            *)
(* client_table_, the tag of its units, starts from 1 here.                *)
(***************************************************************************)
EXTENDS Integers, Sequences, FiniteSets, SequencesExt

CONSTANTS
  Workers,      \* the work routines
  Clients,      \* the requests (TransLogConvey objects)
  NoClient,     \* the null client pointer
  Units,        \* the convey units
  NoUnit,       \* no convey unit
  Fixed,        \* the units with a destination of their own (auto_dest_ is false)
  Media,        \* the storage media
  NoMedia       \* no medium; also the priority UINT_MAX of a source outside the media

ASSUME WorkshopAssumption ==
  /\ IsFiniteSet(Workers) /\ IsFiniteSet(Units)
  /\ NoClient \notin Clients
  /\ NoUnit \notin Units
  /\ Fixed \subseteq Units
  /\ NoMedia \notin Media

VARIABLES
  client_table,    \* client_table_: [client, num] records; num is num_request, unsigned
                   \* in the code: a negative number is one that has wrapped round
  subscribed,      \* the workshop is told of changes of the media
  raw_material,    \* raw_material_
  products,        \* products_
  messages,        \* messages_ of each work routine
  feedback,        \* bytes on their way through the feedback socket
  worker,          \* where each work routine is
  holding,         \* the unit each work routine has
  fb,              \* the byte each work routine writes
  unit             \* [state, tag, src, dest] of each unit

routineVars == <<worker, holding, fb>>
shopVars == <<client_table, subscribed, raw_material, products, messages, feedback,
              routineVars, unit>>

NoTag == 0
States == {"Wait", "OnGoing", "SrcVanish", "DestVanish", "CommonDestVanish",
           "CommonDestChange", "Clean", "Cancelled", "Failed", "Done"}
Events == {"NewItem", "Vanish", "CommonDestChange", "Clean", "Cancel"}

ShopTypeOK ==
  /\ client_table \in Seq([client : Clients \cup {NoClient}, num : Int])
  /\ subscribed \in BOOLEAN
  /\ raw_material \in Seq(Units)
  /\ products \in Seq(Units)
  /\ messages \in [Workers -> Seq([event : Events, arg : Nat \cup Media \cup {NoMedia}])]
  /\ feedback \in Seq({"ItemFinish", "WorkRoutineClean"})
  /\ worker \in [Workers -> {"message", "checked", "asleep", "take", "convey",
                             "product", "feedback"}]
  /\ holding \in [Workers -> Units \cup {NoUnit}]
  /\ fb \in [Workers -> {"ItemFinish", "WorkRoutineClean"}]
  /\ unit \in [Units -> [state : States, tag : Nat, src : Media \cup {NoMedia},
                         dest : Media \cup {NoMedia}]]

ShopInit ==
  /\ client_table = <<>>
  /\ subscribed = FALSE
  /\ raw_material = <<>>
  /\ products = <<>>
  /\ messages = [w \in Workers |-> <<>>]
  /\ feedback = <<>>
  /\ worker = [w \in Workers |-> "message"]
  /\ holding = [w \in Workers |-> NoUnit]
  /\ fb = [w \in Workers |-> "ItemFinish"]
  /\ unit = [u \in Units |-> [state |-> "Wait", tag |-> NoTag, src |-> NoMedia, dest |-> NoMedia]]

------------------------------------------------------------------------------
(* Operations of the main thread.                                          *)

\* A message to every work routine.  ConcurrentQueue::push() notifies without the
\* mutex of the waiting side: only a routine that is in wait() already hears it.
Post(event, arg) ==
  /\ messages' = [w \in Workers |-> Append(messages[w], [event |-> event, arg |-> arg])]
  /\ worker' = [w \in Workers |-> IF worker[w] = "asleep" THEN "message" ELSE worker[w]]

\* Units go into the queue, and the routines are told.  Fault: they are not.
Supply_untold(us) == raw_material' = raw_material \o us /\ UNCHANGED <<messages, worker>>
Supply(us) == raw_material' = raw_material \o us /\ Post("NewItem", 0)

Vacant == {i \in DOMAIN client_table : client_table[i].num = 0}

AttachRequest(c, us, src, dest) ==
  LET entry == [client |-> c, num |-> Len(us)]
      tag == IF Vacant = {} THEN Len(client_table) + 1
             ELSE CHOOSE i \in Vacant : \A j \in Vacant : i <= j
  IN /\ client_table' = IF Vacant = {} THEN Append(client_table, entry)
                        ELSE [client_table EXCEPT ![tag] = entry]
     /\ subscribed' = (subscribed \/ client_table = <<>>)
     /\ unit' = [u \in Units |->
                   IF u \in Range(us)
                   THEN [state |-> "Wait", tag |-> tag,
                         src |-> IF u \in Fixed THEN NoMedia ELSE src, dest |-> dest]
                   ELSE unit[u]]
     /\ Supply(us)

AddNewUnit(tag, u, dest) ==
  /\ client_table' = [client_table EXCEPT ![tag].num = @ + 1]
  /\ unit' = [unit EXCEPT ![u].tag = tag, ![u].dest = dest]
  /\ Supply(<<u>>)

\* item_done(), before the client's callback.
Registered(u) == unit[u].tag \in DOMAIN client_table /\ client_table[unit[u].tag].num # 0
CountDown(tag) == client_table' = [client_table EXCEPT ![tag].num = @ - 1]

\* The entries at the end of the table that have no requests are erased.  The
\* media are unsubscribed from when the loop has come down to the first entry.
Trim(table) ==
  LET last == CHOOSE k \in 0 .. Len(table) :
                /\ \A i \in k + 1 .. Len(table) : table[i].num = 0
                /\ k > 0 => table[k].num # 0
  IN /\ client_table' = SubSeq(table, 1, last)
     /\ subscribed' = (subscribed /\ last > 1)

\* item_done(), after the callback.
Tidy(tag) ==
  LET table == IF client_table[tag].num = 0
               THEN [client_table EXCEPT ![tag].client = NoClient]
               ELSE client_table
  IN IF tag = Len(table) THEN Trim(table) ELSE client_table' = table /\ UNCHANGED subscribed

\* The end of cancel_client().
TidyCanceled(tag) ==
  IF tag = Len(client_table) /\ client_table[tag].num = 0
  THEN Trim(client_table)
  ELSE UNCHANGED <<client_table, subscribed>>

------------------------------------------------------------------------------
(* work_routine()                                                          *)

\* A unit that is being conveyed reads a message (inspect_event_check): the state
\* it gets, or "OnGoing" if the message is none of its business.
StateAfter(u, m) ==
  CASE m.event = "Clean" -> "Clean"
    [] m.event = "Cancel" /\ m.arg = unit[u].tag -> "Cancelled"
    [] m.event = "Vanish" /\ m.arg = unit[u].src -> "SrcVanish"
    [] m.event = "Vanish" /\ m.arg # unit[u].src /\ m.arg = unit[u].dest ->
         IF u \in Fixed THEN "DestVanish" ELSE "CommonDestVanish"
    [] m.event = "CommonDestChange" /\ u \notin Fixed /\ m.arg # unit[u].dest -> "CommonDestChange"
    [] OTHER -> "OnGoing"

Consume(w) == messages' = [messages EXCEPT ![w] = Tail(@)]

\* get_next(true) returns a message.
ReadMessage(w) ==
  /\ worker[w] = "message"
  /\ messages[w] # <<>>
  /\ LET event == Head(messages[w]).event IN
     /\ worker' = [worker EXCEPT ![w] = IF event = "NewItem" THEN "take" ELSE @]
     /\ IF event = "Clean"
        THEN /\ fb' = [fb EXCEPT ![w] = "WorkRoutineClean"]
             /\ feedback' = Append(feedback, "WorkRoutineClean")
        ELSE UNCHANGED <<fb, feedback>>
  /\ Consume(w)
  /\ UNCHANGED <<client_table, subscribed, raw_material, products, holding, unit>>

\* get_next(true) finds no message, and waits for the next notification: a push
\* may fall between the two.
FindNoMessage(w) ==
  /\ worker[w] = "message"
  /\ messages[w] = <<>>
  /\ worker' = [worker EXCEPT ![w] = "checked"]
  /\ UNCHANGED <<client_table, subscribed, raw_material, products, messages, feedback,
                 holding, fb, unit>>

FallAsleep(w) ==
  /\ worker[w] = "checked"
  /\ worker' = [worker EXCEPT ![w] = "asleep"]
  /\ UNCHANGED <<client_table, subscribed, raw_material, products, messages, feedback,
                 holding, fb, unit>>

\* The next unit, if there is one.  Fault: the unit stays in the queue.
TakeMaterial_shared(w) ==
  /\ worker[w] = "take"
  /\ raw_material # <<>>
  /\ holding' = [holding EXCEPT ![w] = Head(raw_material)]
  /\ worker' = [worker EXCEPT ![w] = "convey"]
  /\ UNCHANGED <<client_table, subscribed, raw_material, products, messages, feedback, fb, unit>>

TakeMaterial(w) ==
  /\ worker[w] = "take"
  /\ IF raw_material = <<>>
     THEN /\ worker' = [worker EXCEPT ![w] = "message"]
          /\ UNCHANGED <<raw_material, holding, unit>>
     ELSE /\ raw_material' = Tail(raw_material)
          /\ holding' = [holding EXCEPT ![w] = Head(raw_material)]
          /\ unit' = [unit EXCEPT ![Head(raw_material)].state = "OnGoing"]
          /\ worker' = [worker EXCEPT ![w] = "convey"]
  /\ UNCHANGED <<client_table, subscribed, products, messages, feedback, fb>>

\* convey_method(), between two blocks of data.
Inspect(w) ==
  /\ worker[w] = "convey"
  /\ messages[w] # <<>>
  /\ Consume(w)
  /\ LET state == StateAfter(holding[w], Head(messages[w])) IN
     /\ unit' = [unit EXCEPT ![holding[w]].state = state]
     /\ worker' = [worker EXCEPT ![w] = IF state = "OnGoing" THEN @ ELSE "product"]
     /\ fb' = [fb EXCEPT ![w] = IF state = "Clean" THEN "WorkRoutineClean" ELSE @]
  /\ UNCHANGED <<client_table, subscribed, raw_material, products, feedback, holding>>

\* All data is conveyed, or something failed.
Convey(w) ==
  /\ worker[w] = "convey"
  /\ \E state \in {"Done", "Failed"} : unit' = [unit EXCEPT ![holding[w]].state = state]
  /\ worker' = [worker EXCEPT ![w] = "product"]
  /\ UNCHANGED <<client_table, subscribed, raw_material, products, messages, feedback,
                 holding, fb>>

PushProduct(w) ==
  /\ worker[w] = "product"
  /\ products' = Append(products, holding[w])
  /\ holding' = [holding EXCEPT ![w] = NoUnit]
  /\ worker' = [worker EXCEPT ![w] = "feedback"]
  /\ UNCHANGED <<client_table, subscribed, raw_material, messages, feedback, fb, unit>>

WriteFeedback(w) ==
  /\ worker[w] = "feedback"
  /\ feedback' = Append(feedback, fb[w])
  /\ worker' = [worker EXCEPT ![w] = "take"]
  /\ UNCHANGED <<client_table, subscribed, raw_material, products, messages, holding, fb, unit>>

WorkRoutine(w) ==
  \/ ReadMessage(w) \/ FindNoMessage(w) \/ FallAsleep(w)
  \/ TakeMaterial(w) \/ Inspect(w) \/ Convey(w) \/ PushProduct(w) \/ WriteFeedback(w)
==============================================================================
