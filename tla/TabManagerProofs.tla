---------------------------- MODULE TabManagerProofs ----------------------------
(***************************************************************************)
(* For any number of calls, pages and configurations: the types of the     *)
(* tab manager, the limit on tracked tabs, who owns the contexts of a      *)
(* page, its idle timers, and the popups a click waits for. The steps of   *)
(* a call are first described by what they do to its record; the contexts  *)
(* and timers are then argued about in seven classes of steps.             *)
(***************************************************************************)
EXTENDS TabManagerProperties, FiniteSetTheorems, TLAPS

(* The parts of TypeOK.                                                    *)
BrowserTypes ==
  /\ page \in [Targets -> {"none", "open", "gone"}]
  /\ opener \in [Targets -> Targets \cup {None}]
  /\ purging \in [Targets -> {"no", "due", "found", "done"}]

ContextTypes ==
  /\ opens \in [Targets -> Nat]
  /\ live \in [Targets -> SUBSET (Nat \ {0})]

Timer == [tab : Targets, gen : Nat, of : Nat]

TableTypes ==
  /\ entry \in [Targets -> Nat]
  /\ gen \in [Targets -> Nat]
  /\ armed \subseteq Timer
  /\ fired \subseteq Timer
  /\ covered \subseteq Calls
  /\ excess \in Nat

ClickTypes ==
  /\ slot \in [Targets -> Calls \cup {None}]
  /\ captured \in [Calls -> Targets \cup {None}]
  /\ claimed \subseteq Targets

CallRecord ==
  [pc : Pcs, tab : Targets \cup {None}, page : Targets \cup {None},
   victim : Targets \cup {None}, ctx : Nat, seen : BOOLEAN,
   then : {"done", "make", "insert", "reread"}]

CallTypes == call \in [Calls -> CallRecord]

LEMMA Types ==
  TypeOK <=> /\ config \in Configs /\ BrowserTypes /\ ContextTypes /\ TableTypes
             /\ ClickTypes /\ CallTypes
BY DEF TypeOK, BrowserTypes, ContextTypes, TableTypes, ClickTypes, CallTypes,
   CallRecord, Timer

(* The steps of CloseTab and of an eviction, and those that make or        *)
(* attach a page and track it.                                             *)
Evicting == {"list", "lookup", "close", "find", "drop"}

Making == {"make", "setup", "attach", "insert"}

(* What a call has in hand for the steps ahead of it.                      *)
CallOK(c) ==
  /\ call[c].pc \in {"resolve", "adopt", "attach", "setup", "insert", "reread", "shut",
                      "clear"}
        \/ call[c].then \in {"insert", "reread"} => call[c].page \in Targets
  /\ call[c].pc \in {"resolve", "adopt", "reread", "use", "end", "click", "clear", "shut"}
        \/ call[c].then \in {"insert", "reread"} => call[c].tab \in Targets
  /\ call[c].pc \in Evicting => call[c].victim \in Targets

CallsOK == \A c \in Calls : CallOK(c)

Sound ==
  /\ config \in Configs /\ BrowserTypes /\ ContextTypes /\ TableTypes /\ ClickTypes
  /\ CallTypes /\ CallsOK

LEMMA InitSound == Init => Sound
<1> USE TabManagerAssumption DEF Init, Targets, Calls
<1>1. Init => config \in Configs /\ BrowserTypes /\ ContextTypes
  BY DEF BrowserTypes, ContextTypes
<1>2. Init => TableTypes /\ ClickTypes
  BY DEF TableTypes, ClickTypes
<1>3. Init => CallTypes /\ CallsOK
  BY DEF CallTypes, CallRecord, CallsOK, CallOK, Idle, Pcs, Evicting
<1> QED
  BY <1>1, <1>2, <1>3 DEF Sound

(* The next state of a call whose other fields are given; no other call    *)
(* moves.                                                                  *)
Becomes(c, pc, tab, pg, victim, ctx, then) ==
  /\ CallTypes' /\ \A d \in Calls \ {c} : call'[d] = call[d]
  /\ call'[c].pc = pc /\ call'[c].tab = tab /\ call'[c].page = pg
  /\ call'[c].victim = victim /\ call'[c].ctx = ctx /\ call'[c].then = then

After(then) == IF then = "insert" THEN "attach" ELSE "make"

(* What each way of moving a call does to its record.                      *)
LEMMA UpdateIs ==
  ASSUME CallTypes, NEW c \in Calls, NEW r \in CallRecord,
         call' = [call EXCEPT ![c] = r]
  PROVE  Becomes(c, r.pc, r.tab, r.page, r.victim, r.ctx, r.then)
BY DEF CallTypes, Becomes

LEMMA GotoIs ==
  ASSUME CallTypes, NEW c \in Calls, NEW pc \in Pcs,
         Goto(c, pc)
  PROVE  Becomes(c, pc, call[c].tab, call[c].page, call[c].victim, call[c].ctx,
                 call[c].then)
<1> DEFINE r == [call[c] EXCEPT !.pc = pc]
<1>0. call[c] \in CallRecord
  BY DEF CallTypes
<1>1. r \in CallRecord
  BY <1>0 DEF CallRecord
<1>2. call' = [call EXCEPT ![c] = r]
  BY DEF Goto
<1>3. /\ r.pc = pc /\ r.tab = call[c].tab /\ r.page = call[c].page
      /\ r.victim = call[c].victim /\ r.ctx = call[c].ctx /\ r.then = call[c].then
  BY <1>0 DEF CallRecord
<1> HIDE DEF r
<1>4. Becomes(c, r.pc, r.tab, r.page, r.victim, r.ctx, r.then)
  BY <1>1, <1>2, UpdateIs
<1> QED
  BY <1>3, <1>4 DEF Becomes

LEMMA OverIs ==
  ASSUME CallTypes, NEW c \in Calls,
         Over(c)
  PROVE  Becomes(c, "done", None, None, None, 0, "done")
<1> DEFINE r == [Idle EXCEPT !.pc = "done"]
<1>0. Idle \in CallRecord /\ "done" \in Pcs
  BY TabManagerAssumption DEF CallRecord, Pcs, Idle
<1>1. r \in CallRecord
  BY <1>0 DEF CallRecord
<1>2. call' = [call EXCEPT ![c] = r]
  BY DEF Over
<1>3. /\ r.pc = "done" /\ r.tab = None /\ r.page = None
      /\ r.victim = None /\ r.ctx = 0 /\ r.then = "done"
  BY <1>0 DEF CallRecord, Idle
<1> HIDE DEF r
<1>4. Becomes(c, r.pc, r.tab, r.page, r.victim, r.ctx, r.then)
  BY <1>1, <1>2, UpdateIs
<1> QED
  BY <1>3, <1>4 DEF Becomes

LEMMA ReturnIs ==
  ASSUME CallTypes, NEW c \in Calls, NEW pc \in Pcs,
         Return(c, pc)
  PROVE  Becomes(c, pc, call[c].tab, None, None, 0, "done")
<1> DEFINE r == [Idle EXCEPT !.pc = pc, !.tab = call[c].tab]
<1>0. Idle \in CallRecord /\ call[c] \in CallRecord
  BY TabManagerAssumption DEF CallTypes, CallRecord, Pcs, Idle
<1>1. r \in CallRecord
  BY <1>0 DEF CallRecord
<1>2. call' = [call EXCEPT ![c] = r]
  BY DEF Return
<1>3. /\ r.pc = pc /\ r.tab = call[c].tab /\ r.page = None
      /\ r.victim = None /\ r.ctx = 0 /\ r.then = "done"
  BY <1>0 DEF CallRecord, Idle
<1> HIDE DEF r
<1>4. Becomes(c, r.pc, r.tab, r.page, r.victim, r.ctx, r.then)
  BY <1>1, <1>2, UpdateIs
<1> QED
  BY <1>3, <1>4 DEF Becomes

LEMMA FallbackIs ==
  ASSUME CallTypes, NEW c \in Calls,
         Fallback(c)
  PROVE  Becomes(c, "count", call[c].tab, None, None, 0, "make")
<1> DEFINE r == [Creating EXCEPT !.tab = call[c].tab]
<1>0. Creating \in CallRecord /\ call[c] \in CallRecord
  BY TabManagerAssumption DEF CallTypes, CallRecord, Pcs, Idle, Creating
<1>1. r \in CallRecord
  BY <1>0 DEF CallRecord
<1>2. call' = [call EXCEPT ![c] = r]
  BY DEF Fallback
<1>3. /\ r.pc = "count" /\ r.tab = call[c].tab /\ r.page = None
      /\ r.victim = None /\ r.ctx = 0 /\ r.then = "make"
  BY <1>0 DEF CallRecord, Idle, Creating
<1> HIDE DEF r
<1>4. Becomes(c, r.pc, r.tab, r.page, r.victim, r.ctx, r.then)
  BY <1>1, <1>2, UpdateIs
<1> QED
  BY <1>3, <1>4 DEF Becomes

LEMMA ProceedIs ==
  ASSUME CallTypes, NEW c \in Calls,
         Proceed(c)
  PROVE  Becomes(c, After(call[c].then), call[c].tab, call[c].page, None, call[c].ctx,
                 call[c].then)
<1> DEFINE r == [call[c] EXCEPT !.pc = After(call[c].then), !.victim = None,
                                !.seen = FALSE]
<1>0. call[c] \in CallRecord /\ After(call[c].then) \in Pcs
  BY DEF CallTypes, Pcs, After
<1>1. r \in CallRecord
  BY <1>0 DEF CallRecord
<1>2. call' = [call EXCEPT ![c] = r]
  BY DEF Proceed, After
<1>3. /\ r.pc = After(call[c].then) /\ r.tab = call[c].tab /\ r.page = call[c].page
      /\ r.victim = None /\ r.ctx = call[c].ctx /\ r.then = call[c].then
  BY <1>0 DEF CallRecord
<1> HIDE DEF r
<1>4. Becomes(c, r.pc, r.tab, r.page, r.victim, r.ctx, r.then)
  BY <1>1, <1>2, UpdateIs
<1> QED
  BY <1>3, <1>4 DEF Becomes

LEMMA ShutsIs ==
  ASSUME CallTypes, NEW c \in Calls, call[c].then = "insert",
         Fail(c)
  PROVE  Becomes(c, "shut", call[c].tab, call[c].page, None, call[c].ctx, "done")
<1> DEFINE r == [call[c] EXCEPT !.pc = "shut", !.then = "done", !.victim = None,
                                !.seen = FALSE]
<1>0. call[c] \in CallRecord /\ "shut" \in Pcs
  BY DEF CallTypes, Pcs
<1>1. r \in CallRecord
  BY <1>0 DEF CallRecord
<1>2. call' = [call EXCEPT ![c] = r]
  BY DEF Fail
<1>3. /\ r.pc = "shut" /\ r.tab = call[c].tab /\ r.page = call[c].page
      /\ r.victim = None /\ r.ctx = call[c].ctx /\ r.then = "done"
  BY <1>0 DEF CallRecord
<1> HIDE DEF r
<1>4. Becomes(c, r.pc, r.tab, r.page, r.victim, r.ctx, r.then)
  BY <1>1, <1>2, UpdateIs
<1> QED
  BY <1>3, <1>4 DEF Becomes

LEMMA ContextIs ==
  ASSUME CallTypes, NEW c \in Calls, NEW t \in Targets, NEW n \in Nat, NEW pc \in Pcs,
         call' = [call EXCEPT ![c].pc = pc, ![c].page = t, ![c].ctx = n]
  PROVE  Becomes(c, pc, call[c].tab, t, call[c].victim, n, call[c].then)
<1> DEFINE r == [call[c] EXCEPT !.pc = pc, !.page = t, !.ctx = n]
<1>0. call[c] \in CallRecord
  BY DEF CallTypes
<1>1. r \in CallRecord
  BY <1>0 DEF CallRecord
<1>2. call' = [call EXCEPT ![c] = r]
  OBVIOUS
<1>3. /\ r.pc = pc /\ r.tab = call[c].tab /\ r.page = t
      /\ r.victim = call[c].victim /\ r.ctx = n /\ r.then = call[c].then
  BY <1>0 DEF CallRecord
<1> HIDE DEF r
<1>4. Becomes(c, r.pc, r.tab, r.page, r.victim, r.ctx, r.then)
  BY <1>1, <1>2, UpdateIs
<1> QED
  BY <1>3, <1>4 DEF Becomes

LEMMA PageIs ==
  ASSUME CallTypes, NEW c \in Calls, NEW t \in Targets, NEW pc \in Pcs,
         call' = [call EXCEPT ![c].pc = pc, ![c].page = t]
  PROVE  Becomes(c, pc, call[c].tab, t, call[c].victim, call[c].ctx, call[c].then)
<1> DEFINE r == [call[c] EXCEPT !.pc = pc, !.page = t]
<1>0. call[c] \in CallRecord
  BY DEF CallTypes
<1>1. r \in CallRecord
  BY <1>0 DEF CallRecord
<1>2. call' = [call EXCEPT ![c] = r]
  OBVIOUS
<1>3. /\ r.pc = pc /\ r.tab = call[c].tab /\ r.page = t
      /\ r.victim = call[c].victim /\ r.ctx = call[c].ctx /\ r.then = call[c].then
  BY <1>0 DEF CallRecord
<1> HIDE DEF r
<1>4. Becomes(c, r.pc, r.tab, r.page, r.victim, r.ctx, r.then)
  BY <1>1, <1>2, UpdateIs
<1> QED
  BY <1>3, <1>4 DEF Becomes

LEMMA ThenIs ==
  ASSUME CallTypes, NEW c \in Calls, NEW then \in {"make", "insert", "reread"}, NEW pc
     \in Pcs,
         call' = [call EXCEPT ![c].pc = pc, ![c].then = then]
  PROVE  Becomes(c, pc, call[c].tab, call[c].page, call[c].victim, call[c].ctx, then)
<1> DEFINE r == [call[c] EXCEPT !.pc = pc, !.then = then]
<1>0. call[c] \in CallRecord
  BY DEF CallTypes
<1>1. r \in CallRecord
  BY <1>0 DEF CallRecord
<1>2. call' = [call EXCEPT ![c] = r]
  OBVIOUS
<1>3. /\ r.pc = pc /\ r.tab = call[c].tab /\ r.page = call[c].page
      /\ r.victim = call[c].victim /\ r.ctx = call[c].ctx /\ r.then = then
  BY <1>0 DEF CallRecord
<1> HIDE DEF r
<1>4. Becomes(c, r.pc, r.tab, r.page, r.victim, r.ctx, r.then)
  BY <1>1, <1>2, UpdateIs
<1> QED
  BY <1>3, <1>4 DEF Becomes

LEMMA VictimIs ==
  ASSUME CallTypes, NEW c \in Calls, NEW t \in Targets, NEW pc \in Pcs,
         call' = [call EXCEPT ![c].pc = pc, ![c].victim = t]
  PROVE  Becomes(c, pc, call[c].tab, call[c].page, t, call[c].ctx, call[c].then)
<1> DEFINE r == [call[c] EXCEPT !.pc = pc, !.victim = t]
<1>0. call[c] \in CallRecord
  BY DEF CallTypes
<1>1. r \in CallRecord
  BY <1>0 DEF CallRecord
<1>2. call' = [call EXCEPT ![c] = r]
  OBVIOUS
<1>3. /\ r.pc = pc /\ r.tab = call[c].tab /\ r.page = call[c].page
      /\ r.victim = t /\ r.ctx = call[c].ctx /\ r.then = call[c].then
  BY <1>0 DEF CallRecord
<1> HIDE DEF r
<1>4. Becomes(c, r.pc, r.tab, r.page, r.victim, r.ctx, r.then)
  BY <1>1, <1>2, UpdateIs
<1> QED
  BY <1>3, <1>4 DEF Becomes

LEMMA SeenIs ==
  ASSUME CallTypes, NEW c \in Calls, NEW seen \in BOOLEAN, NEW pc \in Pcs,
         call' = [call EXCEPT ![c].pc = pc, ![c].seen = seen]
  PROVE  Becomes(c, pc, call[c].tab, call[c].page, call[c].victim, call[c].ctx,
                 call[c].then)
<1> DEFINE r == [call[c] EXCEPT !.pc = pc, !.seen = seen]
<1>0. call[c] \in CallRecord
  BY DEF CallTypes
<1>1. r \in CallRecord
  BY <1>0 DEF CallRecord
<1>2. call' = [call EXCEPT ![c] = r]
  OBVIOUS
<1>3. /\ r.pc = pc /\ r.tab = call[c].tab /\ r.page = call[c].page
      /\ r.victim = call[c].victim /\ r.ctx = call[c].ctx /\ r.then = call[c].then
  BY <1>0 DEF CallRecord
<1> HIDE DEF r
<1>4. Becomes(c, r.pc, r.tab, r.page, r.victim, r.ctx, r.then)
  BY <1>1, <1>2, UpdateIs
<1> QED
  BY <1>3, <1>4 DEF Becomes

LEMMA GivesUpIs ==
  ASSUME CallTypes, NEW c \in Calls, NEW t \in Targets,
         call' = [call EXCEPT ![c].pc = "shut", ![c].page = t, ![c].then = "make"]
  PROVE  Becomes(c, "shut", call[c].tab, t, call[c].victim, call[c].ctx, "make")
<1> DEFINE r == [call[c] EXCEPT !.pc = "shut", !.page = t, !.then = "make"]
<1>0. call[c] \in CallRecord /\ "shut" \in Pcs
  BY DEF CallTypes, Pcs
<1>1. r \in CallRecord
  BY <1>0 DEF CallRecord
<1>2. call' = [call EXCEPT ![c] = r]
  OBVIOUS
<1>3. /\ r.pc = "shut" /\ r.tab = call[c].tab /\ r.page = t
      /\ r.victim = call[c].victim /\ r.ctx = call[c].ctx /\ r.then = "make"
  BY <1>0 DEF CallRecord
<1> HIDE DEF r
<1>4. Becomes(c, r.pc, r.tab, r.page, r.victim, r.ctx, r.then)
  BY <1>1, <1>2, UpdateIs
<1> QED
  BY <1>3, <1>4 DEF Becomes

LEMMA FailIs ==
  ASSUME CallTypes, NEW c \in Calls, Fail(c)
  PROVE  \/ /\ call[c].then = "insert"
            /\ Becomes(c, "shut", call[c].tab, call[c].page, None, call[c].ctx, "done")
         \/ /\ call[c].then # "insert" /\ call[c].tab \in Targets
            /\ Becomes(c, "end", call[c].tab, None, None, 0, "done")
         \/ call[c].then # "insert" /\ Becomes(c, "done", None, None, None, 0, "done")
<1>1. CASE call[c].then = "insert"
  BY <1>1, ShutsIs
<1>2. CASE call[c].then # "insert" /\ call[c].tab = None
  BY <1>2, OverIs DEF Fail, End
<1>3. CASE call[c].then # "insert" /\ call[c].tab # None
  BY <1>3, ReturnIs DEF Fail, End, CallTypes, CallRecord, Pcs
<1> QED
  BY <1>1, <1>2, <1>3

LEMMA EndIs ==
  ASSUME CallTypes, NEW c \in Calls, End(c)
  PROVE  \/ /\ call[c].tab \in Targets
            /\ Becomes(c, "end", call[c].tab, None, None, 0, "done")
         \/ Becomes(c, "done", None, None, None, 0, "done")
<1>1. CASE call[c].tab = None
  BY <1>1, OverIs DEF End
<1>2. CASE call[c].tab # None
  BY <1>2, ReturnIs DEF End, CallTypes, CallRecord, Pcs
<1> QED
  BY <1>1, <1>2

LEMMA CreateIs ==
  ASSUME CallTypes, NEW c \in Calls,
         Begin(c, Creating)
  PROVE  Becomes(c, "count", None, None, None, 0, "make")
<1> DEFINE r == Creating
<1>1. r \in CallRecord
  BY TabManagerAssumption DEF CallRecord, Pcs, Idle, Creating
<1>2. call' = [call EXCEPT ![c] = r]
  BY DEF Begin
<1>3. /\ r.pc = "count" /\ r.tab = None /\ r.page = None
      /\ r.victim = None /\ r.ctx = 0 /\ r.then = "make"
  BY DEF Idle, Creating
<1> HIDE DEF r
<1>4. Becomes(c, r.pc, r.tab, r.page, r.victim, r.ctx, r.then)
  BY <1>1, <1>2, UpdateIs
<1> QED
  BY <1>3, <1>4 DEF Becomes

LEMMA CloseIs ==
  ASSUME CallTypes, NEW c \in Calls, NEW t \in Targets,
         Begin(c, Closing(t))
  PROVE  Becomes(c, "list", None, None, t, 0, "done")
<1> DEFINE r == Closing(t)
<1>1. r \in CallRecord
  BY TabManagerAssumption DEF CallRecord, Pcs, Idle, Closing
<1>2. call' = [call EXCEPT ![c] = r]
  BY DEF Begin
<1>3. /\ r.pc = "list" /\ r.tab = None /\ r.page = None
      /\ r.victim = t /\ r.ctx = 0 /\ r.then = "done"
  BY DEF Idle, Closing
<1> HIDE DEF r
<1>4. Becomes(c, r.pc, r.tab, r.page, r.victim, r.ctx, r.then)
  BY <1>1, <1>2, UpdateIs
<1> QED
  BY <1>3, <1>4 DEF Becomes

LEMMA RequestIs ==
  ASSUME CallTypes, NEW c \in Calls, NEW t \in Targets,
         Begin(c, Requesting(t))
  PROVE  Becomes(c, "resolve", t, t, None, 0, "done")
<1> DEFINE r == Requesting(t)
<1>1. r \in CallRecord
  BY TabManagerAssumption DEF CallRecord, Pcs, Idle, Requesting
<1>2. call' = [call EXCEPT ![c] = r]
  BY DEF Begin
<1>3. /\ r.pc = "resolve" /\ r.tab = t /\ r.page = t
      /\ r.victim = None /\ r.ctx = 0 /\ r.then = "done"
  BY DEF Idle, Requesting
<1> HIDE DEF r
<1>4. Becomes(c, r.pc, r.tab, r.page, r.victim, r.ctx, r.then)
  BY <1>1, <1>2, UpdateIs
<1> QED
  BY <1>3, <1>4 DEF Becomes

Passes(c, pc) ==
  Becomes(c, pc, call[c].tab, call[c].page, call[c].victim, call[c].ctx, call[c].then)

Ends(c) ==
  \/ call[c].tab \in Targets /\ Becomes(c, "end", call[c].tab, None, None, 0, "done")
  \/ Becomes(c, "done", None, None, None, 0, "done")

Fails(c) ==
  \/ /\ call[c].then = "insert"
     /\ Becomes(c, "shut", call[c].tab, call[c].page, None, call[c].ctx, "done")
  \/ call[c].then # "insert" /\ Ends(c)

Proceeds(c) ==
  Becomes(c, After(call[c].then), call[c].tab, call[c].page, None, call[c].ctx,
          call[c].then)

Creates(c) == Becomes(c, "count", call[c].tab, None, None, 0, "make")

(* Where each step of a call starts from and how it leaves the call.       *)
LEMMA StartCreateDoes ==
  ASSUME Sound, NEW c \in Calls, StartCreate(c)
  PROVE  /\ At(c, "unborn")
         /\ Becomes(c, "count", None, None, None, 0, "make")
BY CreateIs DEF Sound, Pcs, StartCreate, Begin, At

LEMMA StartCloseDoes ==
  ASSUME Sound, NEW c \in Calls, StartClose(c)
  PROVE  /\ At(c, "unborn")
         /\ \E t \in Targets : Becomes(c, "list", None, None, t, 0, "done")
BY CloseIs DEF Sound, Pcs, StartClose, Begin, At

LEMMA StartRequestDoes ==
  ASSUME Sound, NEW c \in Calls, StartRequest(c)
  PROVE  /\ At(c, "unborn")
         /\ \E t \in Targets : Becomes(c, "resolve", t, t, None, 0, "done")
BY RequestIs DEF Sound, Pcs, StartRequest, Begin, At

LEMMA FireDoes ==
  ASSUME Sound, NEW c \in Calls, Fire(c)
  PROVE  /\ At(c, "unborn")
         /\ \E t \in Targets : Becomes(c, "list", None, None, t, 0, "done")
BY CloseIs DEF Sound, Pcs, Fire, Begin, At, TableTypes, Timer

LEMMA ResolveDoes ==
  ASSUME Sound, NEW c \in Calls, Resolve(c)
  PROVE  /\ At(c, "resolve")
         /\ \/ Becomes(c, "use", call[c].tab, None, None, 0, "done")
            \/ Becomes(c, "adopt", call[c].tab, call[c].page, call[c].victim,
                       call[c].ctx, "reread")
            \/ Ends(c)
BY ReturnIs, OverIs, ThenIs DEF Sound, Pcs, Resolve, At, Found, NotFound, Ends, CallsOK,
   CallOK

LEMMA AdoptDoes ==
  ASSUME Sound, NEW c \in Calls, Adopt(c)
  PROVE  /\ At(c, "adopt")
         /\ \/ call[c].then = "insert" /\ (Passes(c, "resolve") \/ Passes(c, "count"))
            \/ call[c].then # "insert" /\ (Passes(c, "reread") \/ Passes(c, "attach"))
BY GotoIs DEF Sound, Pcs, Adopt, At, Passes

LEMMA CountDoes ==
  ASSUME Sound, NEW c \in Calls, Count(c)
  PROVE  /\ At(c, "count")
         /\ \/ ~AtLimit /\ Proceeds(c)
            \/ AtLimit /\ (Passes(c, "choose") \/ Fails(c))
BY GotoIs, ProceedIs, FailIs DEF Sound, Pcs, Count, At, Passes, Proceeds, Fails, Ends

LEMMA ChooseDoes ==
  ASSUME Sound, NEW c \in Calls, Choose(c)
  PROVE  /\ At(c, "choose")
         /\ \/ \E v \in Tracked : Becomes(c, "list", call[c].tab, call[c].page, v,
                                          call[c].ctx, call[c].then)
            \/ Fails(c)
BY VictimIs, FailIs DEF Sound, Pcs, Choose, At, Fails, Ends, Tracked

LEMMA MakeDoes ==
  ASSUME Sound, NEW c \in Calls, Make(c)
  PROVE  /\ At(c, "make")
         /\ \/ \E t \in Targets : Becomes(c, "setup", call[c].tab, t, call[c].victim,
                                          opens[t] + 1, call[c].then)
            \/ Fails(c)
<1> USE DEF Sound
<1>1. At(c, "make")
  BY DEF Make
<1>2. CASE Fail(c)
  BY <1>1, <1>2, FailIs DEF Fails, Ends
<1>3. ASSUME NEW u \in Targets, NewContext(c, u, "setup") PROVE
        \E t \in Targets : Becomes(c, "setup", call[c].tab, t, call[c].victim,
                                    opens[t] + 1, call[c].then)
  <2> DEFINE n == opens[u] + 1
  <2>1. n \in Nat
    BY DEF ContextTypes
  <2>2. call' = [call EXCEPT ![c].pc = "setup", ![c].page = u, ![c].ctx = n]
    BY <1>3 DEF NewContext
  <2> HIDE DEF n
  <2> QED
    BY <2>1, <2>2, ContextIs DEF n, Pcs
<1> QED
  BY <1>1, <1>2, <1>3 DEF Make

LEMMA SetupDoes ==
  ASSUME Sound, NEW c \in Calls, Setup(c)
  PROVE  /\ At(c, "setup")
         /\ Passes(c, "insert") \/ Ends(c)
BY GotoIs, EndIs DEF Sound, Pcs, Setup, At, Passes, Ends

LEMMA AttachDoes ==
  ASSUME Sound, NEW c \in Calls, Attach(c)
  PROVE  /\ At(c, "attach")
         /\ Becomes(c, "insert", call[c].tab, call[c].page, call[c].victim,
                    opens[call[c].page] + 1, call[c].then)
<1> USE DEF Sound
<1> DEFINE t == call[c].page  n == opens[t] + 1
<1>1. At(c, "attach")
  BY DEF Attach
<1>2. t \in Targets /\ n \in Nat
  BY <1>1 DEF At, CallsOK, CallOK, ContextTypes
<1>3. call' = [call EXCEPT ![c].pc = "insert", ![c].page = t, ![c].ctx = n]
  BY DEF Attach, NewContext
<1> HIDE DEF t, n
<1>4. Becomes(c, "insert", call[c].tab, t, call[c].victim, n, call[c].then)
  BY <1>2, <1>3, ContextIs DEF Pcs
<1> QED
  BY <1>1, <1>4 DEF t, n

LEMMA InsertDoes ==
  ASSUME Sound, NEW c \in Calls, Insert(c)
  PROVE  /\ At(c, "insert")
         /\ \/ Becomes(c, "done", None, None, None, 0, "done")
            \/ call[c].tab \in Targets /\ (Passes(c, "reread") \/ Passes(c, "resolve"))
<1> USE DEF Sound
<1>1. CASE call[c].tab = None
  BY <1>1, OverIs DEF Insert
<1>2. CASE call[c].tab # None
  <2>1. call[c].tab \in Targets
    BY <1>2 DEF CallTypes, CallRecord
  <2>2. Goto(c, "reread") \/ Goto(c, "resolve")
    BY <1>2 DEF Insert
  <2> QED
    BY <2>1, <2>2, GotoIs DEF Insert, Passes, Pcs
<1> QED
  BY <1>1, <1>2

LEMMA RereadDoes ==
  ASSUME Sound, NEW c \in Calls, Reread(c)
  PROVE  /\ At(c, "reread")
         /\ Becomes(c, "use", call[c].tab, None, None, 0, "done") \/ Ends(c)
BY ReturnIs, OverIs DEF Sound, Pcs, Reread, At, Found, NotFound, Ends, CallsOK, CallOK

LEMMA ListDoes ==
  ASSUME Sound, NEW c \in Calls, List(c)
  PROVE  /\ At(c, "list")
         /\ Passes(c, "lookup") \/ Fails(c)
BY GotoIs, FailIs DEF Sound, Pcs, List, At, Passes, Fails, Ends

LEMMA LookupDoes ==
  ASSUME Sound, NEW c \in Calls, Lookup(c)
  PROVE  /\ At(c, "lookup")
         /\ Passes(c, "close")
BY SeenIs DEF Sound, Pcs, Lookup, At, Passes, IsTracked

LEMMA CloseDoes ==
  ASSUME Sound, NEW c \in Calls, Close(c)
  PROVE  /\ At(c, "close")
         /\ Passes(c, "find") \/ Fails(c)
BY GotoIs, FailIs DEF Sound, Pcs, Close, At, Passes, Fails, Ends

LEMMA FindDoes ==
  ASSUME Sound, NEW c \in Calls, Find(c)
  PROVE  /\ At(c, "find")
         /\ \/ IsTracked(call[c].victim) /\ Passes(c, "drop")
            \/ ~IsTracked(call[c].victim) /\ call[c].then = "done" /\ Ends(c)
            \/ ~IsTracked(call[c].victim) /\ call[c].then # "done" /\ Proceeds(c)
BY GotoIs, OverIs, ProceedIs DEF Sound, Pcs, Find, At, Passes, Ends, Proceeds, Closed

LEMMA DropDoes ==
  ASSUME Sound, NEW c \in Calls, Drop(c)
  PROVE  /\ At(c, "drop")
         /\ \/ call[c].then = "done" /\ Ends(c)
            \/ call[c].then # "done" /\ Proceeds(c)
BY OverIs, ProceedIs DEF Sound, Pcs, Drop, At, Ends, Proceeds, Closed

LEMMA UseDoes ==
  ASSUME Sound, NEW c \in Calls, Use(c)
  PROVE  /\ At(c, "use")
         /\ Ends(c)
BY ReturnIs DEF Sound, Pcs, Use, At, Ends, CallsOK, CallOK

LEMMA CancelAutoCloseDoes ==
  ASSUME Sound, NEW c \in Calls, CancelAutoClose(c)
  PROVE  /\ At(c, "use")
         /\ Ends(c)
BY OverIs DEF Sound, Pcs, CancelAutoClose, At, Ends

LEMMA ScheduleAutoCloseDoes ==
  ASSUME Sound, NEW c \in Calls, ScheduleAutoClose(c)
  PROVE  /\ At(c, "end")
         /\ Ends(c)
BY OverIs DEF Sound, Pcs, ScheduleAutoClose, At, Ends

LEMMA MarkPendingClickDoes ==
  ASSUME Sound, NEW c \in Calls, MarkPendingClick(c)
  PROVE  /\ At(c, "use")
         /\ Becomes(c, "click", call[c].tab, None, None, 0, "done")
BY ReturnIs DEF Sound, Pcs, MarkPendingClick, At

LEMMA TakePopupDoes ==
  ASSUME Sound, NEW c \in Calls, TakePopup(c)
  PROVE  /\ At(c, "click")
         /\ captured[c] \in Targets
         /\ Becomes(c, "clear", call[c].tab, captured[c], call[c].victim, call[c].ctx,
                    call[c].then)
BY PageIs DEF Sound, Pcs, TakePopup, At, ClickTypes

LEMMA ClearAfterPopupDoes ==
  ASSUME Sound, NEW c \in Calls, ClearAfterPopup(c)
  PROVE  /\ At(c, "clear")
         /\ Becomes(c, "adopt", call[c].tab, call[c].page, call[c].victim, call[c].ctx,
                    "insert")
BY ThenIs DEF Sound, Pcs, ClearAfterPopup, At

LEMMA GiveUpDoes ==
  ASSUME Sound, NEW c \in Calls, GiveUp(c)
  PROVE  /\ At(c, "click")
         /\ \/ /\ captured[c] \in Targets /\ Cleared(c)
               /\ Becomes(c, "shut", call[c].tab, captured[c], call[c].victim,
                          call[c].ctx, "make")
            \/ (~Cleared(c) \/ captured[c] = None) /\ (Creates(c) \/ Ends(c))
BY GivesUpIs, FallbackIs, ReturnIs DEF Sound, Pcs, GiveUp, At, ClickTypes, Creates,
   Ends, CallsOK, CallOK

LEMMA ShutDoes ==
  ASSUME Sound, NEW c \in Calls, Shut(c)
  PROVE  /\ At(c, "shut")
         /\ Creates(c) \/ Ends(c)
BY FallbackIs, ReturnIs DEF Sound, Pcs, Shut, At, Creates, Ends, CallsOK, CallOK

(* What a step may change, and which steps may.                           *)
LEMMA ConfigKept ==
  [Next]_vars => config' = config
<1> SUFFICES ASSUME [Next]_vars
             PROVE  config' = config
  OBVIOUS
<1>1. CASE UNCHANGED vars
  BY <1>1 DEF vars
<1>2. ASSUME NEW c \in Calls, Start(c) PROVE config' = config
  BY <1>2 DEF StartCreate, StartClose, StartRequest, Fire, Start
<1>3. ASSUME NEW c \in Calls, Step(c) PROVE config' = config
  <2>1. CASE Resolve(c) \/ Adopt(c) \/ Count(c) \/ Choose(c) \/ Make(c) \/ Setup(c)
             \/ Attach(c) \/ Insert(c) \/ Reread(c)
    BY <2>1 DEF Resolve, Adopt, Count, Choose, Make, Setup, Attach, Insert, Reread
  <2>2. CASE List(c) \/ Lookup(c) \/ Close(c) \/ Find(c) \/ Drop(c)
    BY <2>2 DEF List, Lookup, Close, Find, Drop
  <2>3. CASE Use(c) \/ CancelAutoClose(c) \/ ScheduleAutoClose(c) \/ MarkPendingClick(c)
             \/ TakePopup(c) \/ ClearAfterPopup(c) \/ GiveUp(c) \/ Shut(c)
    BY <2>3 DEF Use, CancelAutoClose, ScheduleAutoClose, MarkPendingClick, TakePopup,
       ClearAfterPopup, GiveUp, Shut
  <2> QED
    BY <1>3, <2>1, <2>2, <2>3 DEF Step
<1>4. ASSUME NEW t \in Targets, Purge(t) \/ PageDies(t) \/ Popup(t) PROVE config' = config
  BY <1>4 DEF PurgeFind, PurgeDrop, PageDies, ClaimPendingPopup, GuardPopup, PopupOpens,
     Purge, Popup
<1>5. CASE Expire \/ FireStale
  BY <1>5 DEF Expire, FireStale
<1> QED
  BY <1>1, <1>2, <1>3, <1>4, <1>5 DEF Next

LEMMA BrowserFrame ==
  [Next]_vars => \/ UNCHANGED browser
                 \/ \E c \in Calls : Make(c) \/ Setup(c) \/ Close(c) \/ Shut(c)
                 \/ \E t \in Targets : PurgeFind(t) \/ PurgeDrop(t) \/ PageDies(t)
                                      \/ ClaimPendingPopup(t) \/ GuardPopup(t)
                 \/ \E t, p \in Targets : PopupOpens(t, p)
<1> SUFFICES ASSUME [Next]_vars,
                 ~(\E c \in Calls : Make(c) \/ Setup(c) \/ Close(c) \/ Shut(c)),
                 ~(\E t \in Targets : PurgeFind(t) \/ PurgeDrop(t) \/ PageDies(t)
                                     \/ ClaimPendingPopup(t) \/ GuardPopup(t)),
                 ~(\E t, p \in Targets : PopupOpens(t, p))
             PROVE  UNCHANGED browser
  OBVIOUS
<1>1. CASE UNCHANGED vars
  BY <1>1 DEF vars, browser
<1>2. ASSUME NEW c \in Calls, Start(c) PROVE UNCHANGED browser
  BY <1>2 DEF StartCreate, StartClose, StartRequest, Fire, Start, browser
<1>3. ASSUME NEW c \in Calls, Step(c) PROVE UNCHANGED browser
  <2>1. CASE Resolve(c) \/ Adopt(c) \/ Count(c) \/ Choose(c) \/ Attach(c) \/ Insert(c)
             \/ Reread(c)
    BY <2>1 DEF Resolve, Adopt, Count, Choose, Attach, Insert, Reread, browser
  <2>2. CASE List(c) \/ Lookup(c) \/ Find(c) \/ Drop(c)
    BY <2>2 DEF List, Lookup, Find, Drop, browser
  <2>3. CASE Use(c) \/ CancelAutoClose(c) \/ ScheduleAutoClose(c) \/ MarkPendingClick(c)
             \/ TakePopup(c) \/ ClearAfterPopup(c) \/ GiveUp(c)
    BY <2>3 DEF Use, CancelAutoClose, ScheduleAutoClose, MarkPendingClick, TakePopup,
       ClearAfterPopup, GiveUp, browser
  <2> QED
    BY <1>3, <2>1, <2>2, <2>3 DEF Step
<1>4. ASSUME NEW t \in Targets, Purge(t) \/ PageDies(t) \/ Popup(t) PROVE UNCHANGED browser
  BY <1>4 DEF Purge, Popup, browser
<1>5. CASE Expire \/ FireStale
  BY <1>5 DEF Expire, FireStale, browser
<1> QED
  BY <1>1, <1>2, <1>3, <1>4, <1>5 DEF Next

LEMMA ContextFrame ==
  [Next]_vars => \/ UNCHANGED contexts
                 \/ \E c \in Calls : Make(c) \/ Setup(c) \/ Attach(c) \/ Lookup(c)
                                    \/ Find(c)
                 \/ \E t \in Targets : PurgeFind(t)
<1> SUFFICES ASSUME [Next]_vars,
                 ~(\E c \in Calls : Make(c) \/ Setup(c) \/ Attach(c) \/ Lookup(c)
                                   \/ Find(c)),
                 ~(\E t \in Targets : PurgeFind(t))
             PROVE  UNCHANGED contexts
  OBVIOUS
<1>1. CASE UNCHANGED vars
  BY <1>1 DEF vars, contexts
<1>2. ASSUME NEW c \in Calls, Start(c) PROVE UNCHANGED contexts
  BY <1>2 DEF StartCreate, StartClose, StartRequest, Fire, Start, contexts
<1>3. ASSUME NEW c \in Calls, Step(c) PROVE UNCHANGED contexts
  <2>1. CASE Resolve(c) \/ Adopt(c) \/ Count(c) \/ Choose(c) \/ Insert(c) \/ Reread(c)
    BY <2>1 DEF Resolve, Adopt, Count, Choose, Insert, Reread, contexts
  <2>2. CASE List(c) \/ Close(c) \/ Drop(c)
    BY <2>2 DEF List, Close, Drop, contexts
  <2>3. CASE Use(c) \/ CancelAutoClose(c) \/ ScheduleAutoClose(c) \/ MarkPendingClick(c)
             \/ TakePopup(c) \/ ClearAfterPopup(c) \/ GiveUp(c) \/ Shut(c)
    BY <2>3 DEF Use, CancelAutoClose, ScheduleAutoClose, MarkPendingClick, TakePopup,
       ClearAfterPopup, GiveUp, Shut, contexts
  <2> QED
    BY <1>3, <2>1, <2>2, <2>3 DEF Step
<1>4. ASSUME NEW t \in Targets, Purge(t) \/ PageDies(t) \/ Popup(t) PROVE UNCHANGED contexts
  BY <1>4 DEF PurgeDrop, PageDies, ClaimPendingPopup, GuardPopup, PopupOpens, Purge,
     Popup, contexts
<1>5. CASE Expire \/ FireStale
  BY <1>5 DEF Expire, FireStale, contexts
<1> QED
  BY <1>1, <1>2, <1>3, <1>4, <1>5 DEF Next

LEMMA TableFrame ==
  [Next]_vars => \/ UNCHANGED table
                 \/ \E c \in Calls : Fire(c) \/ Count(c) \/ Insert(c) \/ Drop(c)
                                    \/ CancelAutoClose(c) \/ ScheduleAutoClose(c)
                 \/ \E t \in Targets : PurgeDrop(t)
                 \/ Expire
                 \/ FireStale
<1> SUFFICES ASSUME [Next]_vars,
                 ~(\E c \in Calls : Fire(c) \/ Count(c) \/ Insert(c) \/ Drop(c)
                                   \/ CancelAutoClose(c) \/ ScheduleAutoClose(c)),
                 ~(\E t \in Targets : PurgeDrop(t)),
                 ~Expire,
                 ~FireStale
             PROVE  UNCHANGED table
  OBVIOUS
<1>1. CASE UNCHANGED vars
  BY <1>1 DEF vars, table, timers, limit
<1>2. ASSUME NEW c \in Calls, Start(c) PROVE UNCHANGED table
  BY <1>2 DEF StartCreate, StartClose, StartRequest, Start, table, timers, limit
<1>3. ASSUME NEW c \in Calls, Step(c) PROVE UNCHANGED table
  <2>1. CASE Resolve(c) \/ Adopt(c) \/ Choose(c) \/ Make(c) \/ Setup(c) \/ Attach(c)
             \/ Reread(c)
    BY <2>1 DEF Resolve, Adopt, Choose, Make, Setup, Attach, Reread, table, timers,
       limit
  <2>2. CASE List(c) \/ Lookup(c) \/ Close(c) \/ Find(c)
    BY <2>2 DEF List, Lookup, Close, Find, table, timers, limit
  <2>3. CASE Use(c) \/ MarkPendingClick(c) \/ TakePopup(c) \/ ClearAfterPopup(c)
             \/ GiveUp(c) \/ Shut(c)
    BY <2>3 DEF Use, MarkPendingClick, TakePopup, ClearAfterPopup, GiveUp, Shut, table,
       timers, limit
  <2> QED
    BY <1>3, <2>1, <2>2, <2>3 DEF Step
<1>4. ASSUME NEW t \in Targets, Purge(t) \/ PageDies(t) \/ Popup(t) PROVE UNCHANGED table
  BY <1>4 DEF PurgeFind, PageDies, ClaimPendingPopup, GuardPopup, PopupOpens, Purge,
     Popup, table, timers, limit
<1> QED
  BY <1>1, <1>2, <1>3, <1>4 DEF Next

LEMMA ClickFrame ==
  [Next]_vars => \/ UNCHANGED clicks
                 \/ \E c \in Calls : Adopt(c) \/ Insert(c) \/ MarkPendingClick(c)
                                    \/ TakePopup(c) \/ ClearAfterPopup(c) \/ GiveUp(c)
                                    \/ Shut(c)
                 \/ \E t \in Targets : ClaimPendingPopup(t)
<1> SUFFICES ASSUME [Next]_vars,
                 ~(\E c \in Calls : Adopt(c) \/ Insert(c) \/ MarkPendingClick(c)
                                   \/ TakePopup(c) \/ ClearAfterPopup(c) \/ GiveUp(c)
                                   \/ Shut(c)),
                 ~(\E t \in Targets : ClaimPendingPopup(t))
             PROVE  UNCHANGED clicks
  OBVIOUS
<1>1. CASE UNCHANGED vars
  BY <1>1 DEF vars, clicks
<1>2. ASSUME NEW c \in Calls, Start(c) PROVE UNCHANGED clicks
  BY <1>2 DEF StartCreate, StartClose, StartRequest, Fire, Start, clicks
<1>3. ASSUME NEW c \in Calls, Step(c) PROVE UNCHANGED clicks
  <2>1. CASE Resolve(c) \/ Count(c) \/ Choose(c) \/ Make(c) \/ Setup(c) \/ Attach(c)
             \/ Reread(c)
    BY <2>1 DEF Resolve, Count, Choose, Make, Setup, Attach, Reread, clicks
  <2>2. CASE List(c) \/ Lookup(c) \/ Close(c) \/ Find(c) \/ Drop(c)
    BY <2>2 DEF List, Lookup, Close, Find, Drop, clicks
  <2>3. CASE Use(c) \/ CancelAutoClose(c) \/ ScheduleAutoClose(c)
    BY <2>3 DEF Use, CancelAutoClose, ScheduleAutoClose, clicks
  <2> QED
    BY <1>3, <2>1, <2>2, <2>3 DEF Step
<1>4. ASSUME NEW t \in Targets, Purge(t) \/ PageDies(t) \/ Popup(t) PROVE UNCHANGED clicks
  BY <1>4 DEF PurgeFind, PurgeDrop, PageDies, GuardPopup, PopupOpens, Purge, Popup,
     clicks
<1>5. CASE Expire \/ FireStale
  BY <1>5 DEF Expire, FireStale, clicks
<1> QED
  BY <1>1, <1>2, <1>3, <1>4, <1>5 DEF Next

(* Each part of the type invariant is kept by every step.                  *)
LEMMA BrowserStep == Sound /\ [Next]_vars => BrowserTypes'
<1> SUFFICES ASSUME Sound, [Next]_vars PROVE BrowserTypes'
  OBVIOUS
<1> USE TabManagerAssumption DEF Sound, CallTypes, CallRecord, CallsOK, CallOK,
                                Evicting, BrowserTypes, browser
<1>1. ASSUME NEW c \in Calls, Make(c) PROVE BrowserTypes'
  BY <1>1 DEF Make, At, NewTarget
<1>2. ASSUME NEW c \in Calls, Setup(c) PROVE BrowserTypes'
  <2> DEFINE t == call[c].page
  <2>1. t \in Targets
    BY <1>2 DEF Setup, At
  <2>2. CloseTarget(t) \/ UNCHANGED browser
    BY <1>2 DEF Setup, CloseTargetFails
  <2> HIDE DEF t
  <2> QED
    BY <2>1, <2>2 DEF CloseTarget, Gone
<1>3. ASSUME NEW c \in Calls, Close(c) PROVE BrowserTypes'
  <2> DEFINE t == call[c].victim
  <2>1. t \in Targets
    BY <1>3 DEF Close, At
  <2>2. CloseTarget(t) \/ UNCHANGED browser
    BY <1>3 DEF Close, CloseTargetFails
  <2> HIDE DEF t
  <2> QED
    BY <2>1, <2>2 DEF CloseTarget, Gone
<1>4. ASSUME NEW c \in Calls, Shut(c) PROVE BrowserTypes'
  <2> DEFINE t == call[c].page
  <2>1. t \in Targets
    BY <1>4 DEF Shut, At
  <2>2. CloseTarget(t) \/ UNCHANGED browser
    BY <1>4 DEF Shut, CloseTargetFails
  <2> HIDE DEF t
  <2> QED
    BY <2>1, <2>2 DEF CloseTarget, Gone
<1>5. ASSUME NEW t \in Targets, PurgeFind(t) PROVE BrowserTypes'
  BY <1>5 DEF PurgeFind, Cancel
<1>6. ASSUME NEW t \in Targets, PurgeDrop(t) PROVE BrowserTypes'
  BY <1>6 DEF PurgeDrop, Forget, OfEntry
<1>7. ASSUME NEW t \in Targets, PageDies(t) PROVE BrowserTypes'
  BY <1>7 DEF PageDies, Gone
<1>8. ASSUME NEW t \in Targets, NEW p \in Targets, PopupOpens(t, p) PROVE BrowserTypes'
  BY <1>8 DEF PopupOpens, NewTarget, Open
<1>9. ASSUME NEW p \in Targets, ClaimPendingPopup(p) PROVE BrowserTypes'
  BY <1>9 DEF ClaimPendingPopup, Heard, Awaited
<1>10. ASSUME NEW p \in Targets, GuardPopup(p) PROVE BrowserTypes'
  BY <1>10 DEF GuardPopup, Heard, Awaited, Gone
<1>11. CASE UNCHANGED browser
  BY <1>11
<1> QED
  BY BrowserFrame, <1>1, <1>2, <1>3, <1>4, <1>5, <1>6, <1>7, <1>8, <1>9, <1>10, <1>11

LEMMA ContextStep == Sound /\ [Next]_vars => ContextTypes'
<1> SUFFICES ASSUME Sound, [Next]_vars PROVE ContextTypes'
  OBVIOUS
<1> USE TabManagerAssumption DEF Sound, CallTypes, CallRecord, CallsOK, CallOK,
                                Evicting, ContextTypes, TableTypes, contexts
<1>1. ASSUME NEW c \in Calls, Make(c) PROVE ContextTypes'
  <2>1. CASE UNCHANGED contexts
    BY <2>1
  <2>2. ASSUME NEW t \in Targets, NewContext(c, t, "setup") PROVE ContextTypes'
    BY <2>2 DEF NewContext
  <2> QED
    BY <1>1, <2>1, <2>2 DEF Make
<1>2. ASSUME NEW c \in Calls, Setup(c) PROVE ContextTypes'
  BY <1>2 DEF Setup, At, Cancel, CloseTarget, Gone, CloseTargetFails
<1>3. ASSUME NEW c \in Calls, Attach(c) PROVE ContextTypes'
  BY <1>3 DEF Attach, At, NewContext
<1>4. ASSUME NEW c \in Calls, Lookup(c) PROVE ContextTypes'
  BY <1>4 DEF Lookup, At, Cancel
<1>5. ASSUME NEW c \in Calls, Find(c) PROVE ContextTypes'
  BY <1>5 DEF Find, At, Cancel
<1>6. ASSUME NEW t \in Targets, PurgeFind(t) PROVE ContextTypes'
  BY <1>6 DEF PurgeFind, Cancel
<1>7. CASE UNCHANGED contexts
  BY <1>7
<1> QED
  BY ContextFrame, <1>1, <1>2, <1>3, <1>4, <1>5, <1>6, <1>7

LEMMA TableStep == Sound /\ [Next]_vars => TableTypes'
<1> SUFFICES ASSUME Sound, [Next]_vars PROVE TableTypes'
  OBVIOUS
<1> USE TabManagerAssumption DEF Sound, CallTypes, CallRecord, CallsOK, CallOK,
                                Evicting, TableTypes, Timer, table, timers, limit
<1>1. ASSUME NEW c \in Calls, Fire(c) PROVE TableTypes'
  BY <1>1 DEF Fire, At, OfEntry, Current
<1>2. ASSUME NEW c \in Calls, Count(c) PROVE TableTypes'
  BY <1>2 DEF Count, At
<1>3. ASSUME NEW c \in Calls, Insert(c) PROVE TableTypes'
  BY <1>3 DEF Insert, At
<1>4. ASSUME NEW c \in Calls, Drop(c) PROVE TableTypes'
  BY <1>4 DEF Drop, At, Forget, OfEntry
<1>5. ASSUME NEW c \in Calls, CancelAutoClose(c) PROVE TableTypes'
  BY <1>5 DEF CancelAutoClose, At, Rearm, OfEntry, Timed
<1>6. ASSUME NEW c \in Calls, ScheduleAutoClose(c) PROVE TableTypes'
  BY <1>6 DEF ScheduleAutoClose, At, Rearm, OfEntry, Timed
<1>7. ASSUME NEW t \in Targets, PurgeDrop(t) PROVE TableTypes'
  BY <1>7 DEF PurgeDrop, Forget, OfEntry
<1>8. CASE Expire
  BY <1>8 DEF Expire
<1>9. CASE FireStale
  BY <1>9 DEF FireStale, Current
<1>10. CASE UNCHANGED table
  BY <1>10
<1> QED
  BY TableFrame, <1>1, <1>2, <1>3, <1>4, <1>5, <1>6, <1>7, <1>8, <1>9, <1>10

LEMMA ClickStep == Sound /\ [Next]_vars => ClickTypes'
<1> SUFFICES ASSUME Sound, [Next]_vars PROVE ClickTypes'
  OBVIOUS
<1> USE TabManagerAssumption DEF Sound, CallTypes, CallRecord, ClickTypes, clicks,
                                CallsOK, CallOK
<1>1. ASSUME NEW c \in Calls, Adopt(c) PROVE ClickTypes'
  BY <1>1 DEF Adopt, At
<1>2. ASSUME NEW c \in Calls, Insert(c) PROVE ClickTypes'
  BY <1>2 DEF Insert, At
<1>3. ASSUME NEW c \in Calls, MarkPendingClick(c) PROVE ClickTypes'
  BY <1>3 DEF MarkPendingClick, At
<1>4. ASSUME NEW c \in Calls, TakePopup(c) PROVE ClickTypes'
  BY <1>4 DEF TakePopup, At
<1>5. ASSUME NEW c \in Calls, ClearAfterPopup(c) PROVE ClickTypes'
  BY <1>5 DEF ClearAfterPopup, At, ClearPendingClick, Cleared
<1>6. ASSUME NEW c \in Calls, GiveUp(c) PROVE ClickTypes'
  BY <1>6 DEF GiveUp, At, ClearPendingClick, Cleared
<1>7. ASSUME NEW c \in Calls, Shut(c) PROVE ClickTypes'
  BY <1>7 DEF Shut, At, CloseTarget, Gone, CloseTargetFails
<1>8. ASSUME NEW p \in Targets, ClaimPendingPopup(p) PROVE ClickTypes'
  BY <1>8 DEF ClaimPendingPopup, Heard, Awaited
<1>9. CASE UNCHANGED clicks
  BY <1>9
<1> QED
  BY ClickFrame, <1>1, <1>2, <1>3, <1>4, <1>5, <1>6, <1>7, <1>8, <1>9

LEMMA CallFrame == [Next]_vars => UNCHANGED call \/ \E c \in Calls : Start(c) \/ Step(c)
BY DEF vars, Next, Purge, PurgeFind, PurgeDrop, PageDies, Popup, PopupOpens,
   ClaimPendingPopup, GuardPopup, Expire, FireStale

LEMMA CallStep == Sound /\ [Next]_vars => CallTypes' /\ CallsOK'
<1> SUFFICES ASSUME Sound, [Next]_vars PROVE CallTypes' /\ CallsOK'
  OBVIOUS
<1> USE TabManagerAssumption DEF Sound, CallsOK, CallOK, Evicting, Becomes, After,
   Tracked
<1>1. ASSUME NEW c \in Calls, StartCreate(c) PROVE CallTypes' /\ CallsOK'
  BY <1>1, StartCreateDoes DEF At
<1>2. ASSUME NEW c \in Calls, StartClose(c) PROVE CallTypes' /\ CallsOK'
  BY <1>2, StartCloseDoes DEF At
<1>3. ASSUME NEW c \in Calls, StartRequest(c) PROVE CallTypes' /\ CallsOK'
  BY <1>3, StartRequestDoes DEF At
<1>4. ASSUME NEW c \in Calls, Fire(c) PROVE CallTypes' /\ CallsOK'
  BY <1>4, FireDoes DEF At
<1>5. ASSUME NEW c \in Calls, Resolve(c) PROVE CallTypes' /\ CallsOK'
  BY <1>5, ResolveDoes DEF At, Ends
<1>6. ASSUME NEW c \in Calls, Adopt(c) PROVE CallTypes' /\ CallsOK'
  BY <1>6, AdoptDoes DEF At, Passes
<1>7. ASSUME NEW c \in Calls, Count(c) PROVE CallTypes' /\ CallsOK'
  BY <1>7, CountDoes DEF At, Passes, Fails, Proceeds, Ends
<1>8. ASSUME NEW c \in Calls, Choose(c) PROVE CallTypes' /\ CallsOK'
  BY <1>8, ChooseDoes DEF At, Fails, Ends
<1>9. ASSUME NEW c \in Calls, Make(c) PROVE CallTypes' /\ CallsOK'
  BY <1>9, MakeDoes DEF At, Fails, Ends
<1>10. ASSUME NEW c \in Calls, Setup(c) PROVE CallTypes' /\ CallsOK'
  BY <1>10, SetupDoes DEF At, Passes, Ends
<1>11. ASSUME NEW c \in Calls, Attach(c) PROVE CallTypes' /\ CallsOK'
  BY <1>11, AttachDoes DEF At
<1>12. ASSUME NEW c \in Calls, Insert(c) PROVE CallTypes' /\ CallsOK'
  BY <1>12, InsertDoes DEF At, Passes
<1>13. ASSUME NEW c \in Calls, Reread(c) PROVE CallTypes' /\ CallsOK'
  BY <1>13, RereadDoes DEF At, Ends
<1>14. ASSUME NEW c \in Calls, List(c) PROVE CallTypes' /\ CallsOK'
  BY <1>14, ListDoes DEF At, Passes, Fails, Ends
<1>15. ASSUME NEW c \in Calls, Lookup(c) PROVE CallTypes' /\ CallsOK'
  BY <1>15, LookupDoes DEF At, Passes
<1>16. ASSUME NEW c \in Calls, Close(c) PROVE CallTypes' /\ CallsOK'
  BY <1>16, CloseDoes DEF At, Passes, Fails, Ends
<1>17. ASSUME NEW c \in Calls, Find(c) PROVE CallTypes' /\ CallsOK'
  BY <1>17, FindDoes DEF At, Passes, Ends, Proceeds
<1>18. ASSUME NEW c \in Calls, Drop(c) PROVE CallTypes' /\ CallsOK'
  BY <1>18, DropDoes DEF At, Ends, Proceeds
<1>19. ASSUME NEW c \in Calls, Use(c) PROVE CallTypes' /\ CallsOK'
  BY <1>19, UseDoes DEF At, Ends
<1>20. ASSUME NEW c \in Calls, CancelAutoClose(c) PROVE CallTypes' /\ CallsOK'
  BY <1>20, CancelAutoCloseDoes DEF At, Ends
<1>21. ASSUME NEW c \in Calls, ScheduleAutoClose(c) PROVE CallTypes' /\ CallsOK'
  BY <1>21, ScheduleAutoCloseDoes DEF At, Ends
<1>22. ASSUME NEW c \in Calls, MarkPendingClick(c) PROVE CallTypes' /\ CallsOK'
  BY <1>22, MarkPendingClickDoes DEF At
<1>23. ASSUME NEW c \in Calls, TakePopup(c) PROVE CallTypes' /\ CallsOK'
  BY <1>23, TakePopupDoes DEF At
<1>24. ASSUME NEW c \in Calls, ClearAfterPopup(c) PROVE CallTypes' /\ CallsOK'
  BY <1>24, ClearAfterPopupDoes DEF At
<1>25. ASSUME NEW c \in Calls, GiveUp(c) PROVE CallTypes' /\ CallsOK'
  BY <1>25, GiveUpDoes DEF At, Ends, Creates
<1>26. ASSUME NEW c \in Calls, Shut(c) PROVE CallTypes' /\ CallsOK'
  BY <1>26, ShutDoes DEF At, Ends, Creates
<1>27. CASE UNCHANGED call
  BY <1>27 DEF CallTypes
<1> HIDE DEF Sound, CallsOK, CallOK, Evicting, Becomes, After, Tracked
<1> QED
  BY CallFrame, <1>1, <1>2, <1>3, <1>4, <1>5, <1>6, <1>7, <1>8, <1>9, <1>10, <1>11,
     <1>12, <1>13, <1>14, <1>15, <1>16, <1>17, <1>18, <1>19, <1>20, <1>21, <1>22, <1>23,
     <1>24, <1>25, <1>26, <1>27 DEF Start, Step

LEMMA SoundStep == Sound /\ [Next]_vars => Sound'
<1> SUFFICES ASSUME Sound, [Next]_vars PROVE Sound'
  OBVIOUS
<1> QED
  BY ConfigKept, BrowserStep, ContextStep, TableStep, ClickStep, CallStep DEF Sound

(* A call that has counted the tabs and may insert one has room for it:    *)
(* the table has room, or the tab the call is evicting is still in it.     *)
Room == Cardinality(Tracked) < config.maxTabs + excess

Covering ==
  \A c \in covered :
    /\ call[c].pc \notin {"unborn", "resolve", "adopt", "reread", "use", "click", "clear"}
    /\ call[c].pc \in Evicting =>
         call[c].then = "done" \/ Room \/ IsTracked(call[c].victim)
    /\ call[c].pc \in Making => Room

(* Tracking a tab adds one at most, forgetting one takes it away.          *)
LEMMA TrackedFinite ==
  ASSUME TableTypes
  PROVE  IsFiniteSet(Tracked) /\ Cardinality(Tracked) \in Nat
<1>1. IsFiniteSet(Targets)
  BY FS_Interval, TabManagerAssumption DEF Targets
<1>2. Tracked \subseteq Targets
  BY DEF Tracked
<1> QED
  BY <1>1, <1>2, FS_Subset, FS_CardinalityType

LEMMA TrackedKept == UNCHANGED entry => Tracked' = Tracked
BY DEF Tracked, IsTracked

LEMMA TrackOne ==
  ASSUME TableTypes, NEW t \in Targets, NEW x, entry' = [entry EXCEPT ![t] = x]
  PROVE  /\ Cardinality(Tracked') \in Nat
         /\ IsTracked(t) => Cardinality(Tracked') <= Cardinality(Tracked)
         /\ Cardinality(Tracked') <= Cardinality(Tracked) + 1
<1>1. IsFiniteSet(Tracked) /\ Cardinality(Tracked) \in Nat
  BY TrackedFinite
<1>2. Tracked' \subseteq Tracked \cup {t}
  BY DEF Tracked, IsTracked, TableTypes
<1>3. /\ IsFiniteSet(Tracked \cup {t})
      /\ Cardinality(Tracked \cup {t}) = IF t \in Tracked THEN Cardinality(Tracked)
                                         ELSE Cardinality(Tracked) + 1
  BY <1>1, FS_AddElement
<1>4. /\ Cardinality(Tracked') <= Cardinality(Tracked \cup {t})
      /\ Cardinality(Tracked') \in Nat
  BY <1>2, <1>3, FS_Subset, FS_CardinalityType
<1>5. IsTracked(t) => t \in Tracked
  BY DEF Tracked
<1> HIDE DEF Tracked
<1> QED
  BY <1>1, <1>3, <1>4, <1>5

LEMMA ForgetOne ==
  ASSUME TableTypes, NEW t \in Targets, entry' = [entry EXCEPT ![t] = 0]
  PROVE  /\ Cardinality(Tracked') \in Nat
         /\ IsTracked(t) => Cardinality(Tracked') = Cardinality(Tracked) - 1
         /\ Cardinality(Tracked') <= Cardinality(Tracked)
<1>1. IsFiniteSet(Tracked) /\ Cardinality(Tracked) \in Nat
  BY TrackedFinite
<1>2. Tracked' = Tracked \ {t}
  BY DEF Tracked, IsTracked, TableTypes
<1>3. /\ IsFiniteSet(Tracked \ {t})
      /\ Cardinality(Tracked \ {t}) = IF t \in Tracked THEN Cardinality(Tracked) - 1
                                      ELSE Cardinality(Tracked)
  BY <1>1, FS_RemoveElement
<1>4. IsTracked(t) <=> t \in Tracked
  BY DEF Tracked
<1>5. Cardinality(Tracked') \in Nat
  BY <1>2, <1>3, FS_CardinalityType
<1> HIDE DEF Tracked
<1> QED
  BY <1>1, <1>2, <1>3, <1>4, <1>5

LEMMA MaxTabs == Sound => config.maxTabs \in Nat
BY TabManagerAssumption DEF Sound

(* Insert uses the room of the call that inserts, or is counted as         *)
(* excess.                                                                 *)
LEMMA RoomFrame ==
  [Next]_vars => \/ UNCHANGED <<entry, excess>>
                 \/ \E c \in Calls : Insert(c) \/ Drop(c)
                 \/ \E t \in Targets : PurgeDrop(t)
<1> SUFFICES ASSUME [Next]_vars,
                 ~(\E c \in Calls : Insert(c) \/ Drop(c)),
                 ~(\E t \in Targets : PurgeDrop(t))
             PROVE  UNCHANGED <<entry, excess>>
  OBVIOUS
<1>1. CASE UNCHANGED vars
  BY <1>1 DEF vars, table, timers, limit
<1>2. ASSUME NEW c \in Calls, Start(c) PROVE UNCHANGED <<entry, excess>>
  BY <1>2 DEF StartCreate, StartClose, StartRequest, Fire, Start, table, timers, limit
<1>3. ASSUME NEW c \in Calls, Step(c) PROVE UNCHANGED <<entry, excess>>
  <2>1. CASE Resolve(c) \/ Adopt(c) \/ Count(c) \/ Choose(c) \/ Make(c) \/ Setup(c)
             \/ Attach(c) \/ Reread(c)
    BY <2>1 DEF Resolve, Adopt, Count, Choose, Make, Setup, Attach, Reread, table,
       timers, limit
  <2>2. CASE List(c) \/ Lookup(c) \/ Close(c) \/ Find(c)
    BY <2>2 DEF List, Lookup, Close, Find, table, timers, limit
  <2>3. CASE Use(c) \/ CancelAutoClose(c) \/ ScheduleAutoClose(c) \/ MarkPendingClick(c)
             \/ TakePopup(c) \/ ClearAfterPopup(c) \/ GiveUp(c) \/ Shut(c)
    BY <2>3 DEF Use, CancelAutoClose, ScheduleAutoClose, MarkPendingClick, TakePopup,
       ClearAfterPopup, GiveUp, Shut, table, timers, limit
  <2> QED
    BY <1>3, <2>1, <2>2, <2>3 DEF Step
<1>4. ASSUME NEW t \in Targets, Purge(t) \/ PageDies(t) \/ Popup(t)
      PROVE  UNCHANGED <<entry, excess>>
  BY <1>4 DEF PurgeFind, PageDies, ClaimPendingPopup, GuardPopup, PopupOpens, Purge,
     Popup, table, timers, limit
<1>5. CASE Expire \/ FireStale
  BY <1>5 DEF Expire, FireStale, table, timers, limit
<1> QED
  BY <1>1, <1>2, <1>3, <1>4, <1>5 DEF Next

LEMMA ExcessStep == Sound /\ ExcessCovered /\ Covering /\ [Next]_vars => ExcessCovered'
<1> SUFFICES ASSUME Sound, ExcessCovered, Covering, [Next]_vars PROVE ExcessCovered'
  OBVIOUS
<1> USE DEF Sound, ExcessCovered
<1>1. /\ Cardinality(Tracked) \in Nat /\ config' = config
      /\ config.maxTabs \in Nat /\ excess \in Nat
  BY TrackedFinite, ConfigKept, MaxTabs DEF TableTypes
<1>2. ASSUME NEW c \in Calls, Insert(c) PROVE ExcessCovered'
  <2> DEFINE t == call[c].page
  <2>1. t \in Targets /\ entry' = [entry EXCEPT ![t] = call[c].ctx]
    BY <1>2 DEF Insert, At, CallsOK, CallOK
  <2>2. excess' = IF IsTracked(t) \/ c \in covered THEN excess ELSE excess + 1
    BY <1>2 DEF Insert
  <2>3. c \in covered => Room
    BY <1>2 DEF Insert, At, Covering, Making
  <2> HIDE DEF t
  <2> QED
    <3>1. /\ Cardinality(Tracked') \in Nat
          /\ IsTracked(t) => Cardinality(Tracked') <= Cardinality(Tracked)
          /\ Cardinality(Tracked') <= Cardinality(Tracked) + 1
      BY <2>1, TrackOne
    <3> QED
      BY <1>1, <2>2, <2>3, <3>1 DEF Room
<1>3. ASSUME NEW t \in Targets, Forget(t) PROVE ExcessCovered'
  <2>1. Cardinality(Tracked') \in Nat /\ Cardinality(Tracked') <= Cardinality(Tracked)
    BY <1>3, ForgetOne DEF Forget
  <2>2. excess' = excess
    BY <1>3 DEF Forget, limit
  <2> QED
    BY <1>1, <2>1, <2>2
<1>4. ASSUME NEW c \in Calls, Drop(c) PROVE ExcessCovered'
  BY <1>3, <1>4 DEF Drop, At, CallsOK, CallOK, Evicting
<1>5. ASSUME NEW t \in Targets, PurgeDrop(t) PROVE ExcessCovered'
  BY <1>3, <1>5 DEF PurgeDrop
<1>6. CASE UNCHANGED <<entry, excess>>
  BY <1>1, <1>6, TrackedKept
<1> QED
  BY RoomFrame, <1>2, <1>4, <1>5, <1>6

(* A call keeps its room until an insertion resets the count: a removal    *)
(* by another call only makes more.                                        *)
LEMMA CoveringStep == Sound /\ ExcessCovered /\ Covering /\ [Next]_vars => Covering'
<1> SUFFICES ASSUME Sound, ExcessCovered, Covering, [Next]_vars PROVE Covering'
  OBVIOUS
<1> USE DEF Covering, Evicting, Making, IsTracked
<1>a. /\ Cardinality(Tracked) \in Nat /\ config' = config
      /\ config.maxTabs \in Nat /\ excess \in Nat /\ covered \subseteq Calls
  BY TrackedFinite, ConfigKept, MaxTabs DEF Sound, TableTypes
<1>b. entry' = entry /\ excess' = excess => (Room' <=> Room)
  BY <1>a, TrackedKept DEF Room
<1>c. ASSUME NEW t \in Targets, Forget(t)
      PROVE  (Room => Room') /\ (IsTracked(t) => Room') /\ covered' = covered
             /\ \A u \in Targets : u # t /\ IsTracked(u) => IsTracked(u)'
  <2>1. (Room => Room') /\ (IsTracked(t) => Room') /\ covered' = covered
    <3>1. /\ Cardinality(Tracked') \in Nat
          /\ IsTracked(t) => Cardinality(Tracked') = Cardinality(Tracked) - 1
          /\ Cardinality(Tracked') <= Cardinality(Tracked)
      BY <1>c, ForgetOne DEF Forget, Sound
    <3>2. excess' = excess /\ covered' = covered
      BY <1>c DEF Forget, limit
    <3> QED
      BY <1>a, <3>1, <3>2 DEF Room, ExcessCovered
  <2>2. \A u \in Targets : u # t /\ IsTracked(u) => IsTracked(u)'
    BY <1>c DEF Forget, Sound, TableTypes
  <2> QED
    BY <2>1, <2>2
<1>1. ASSUME NEW c \in Calls, StartCreate(c) PROVE Covering'
  <2>1. UNCHANGED <<entry, covered, excess>>
    BY <1>1 DEF StartCreate, table, limit, timers
  <2> QED
    BY <1>a, <1>b, <1>1, <2>1, StartCreateDoes DEF Becomes, At
<1>2. ASSUME NEW c \in Calls, StartClose(c) PROVE Covering'
  <2>1. UNCHANGED <<entry, covered, excess>>
    BY <1>2 DEF StartClose, table, limit, timers
  <2> QED
    BY <1>a, <1>b, <1>2, <2>1, StartCloseDoes DEF Becomes, At
<1>3. ASSUME NEW c \in Calls, StartRequest(c) PROVE Covering'
  <2>1. UNCHANGED <<entry, covered, excess>>
    BY <1>3 DEF StartRequest, table, limit, timers
  <2> QED
    BY <1>a, <1>b, <1>3, <2>1, StartRequestDoes DEF Becomes, At
<1>4. ASSUME NEW c \in Calls, Fire(c) PROVE Covering'
  BY <1>a, <1>b, <1>4, FireDoes DEF Becomes, At, Fire, table, limit, timers
<1>5. ASSUME NEW c \in Calls, Resolve(c) PROVE Covering'
  <2>1. UNCHANGED <<entry, covered, excess>>
    BY <1>5 DEF Resolve, table, limit, timers
  <2> QED
    BY <1>a, <1>b, <1>5, <2>1, ResolveDoes DEF Becomes, At, Ends
<1>6. ASSUME NEW c \in Calls, Adopt(c) PROVE Covering'
  <2>1. UNCHANGED <<entry, covered, excess>>
    BY <1>6 DEF Adopt, table, limit, timers
  <2> QED
    BY <1>a, <1>b, <1>6, <2>1, AdoptDoes DEF Becomes, At, Passes
<1>7. ASSUME NEW c \in Calls, Count(c) PROVE Covering'
  BY <1>a, <1>b, <1>7, CountDoes DEF Becomes, At, Passes, Fails, Proceeds, Ends, After,
     AtLimit, Room, Count, table, limit, timers
<1>8. ASSUME NEW c \in Calls, Choose(c) PROVE Covering'
  <2>1. UNCHANGED <<entry, covered, excess>>
    BY <1>8 DEF Choose, table, limit, timers
  <2> QED
    BY <1>a, <1>b, <1>8, <2>1, ChooseDoes DEF Becomes, At, Fails, Ends, Tracked
<1>9. ASSUME NEW c \in Calls, Make(c) PROVE Covering'
  <2>1. UNCHANGED <<entry, covered, excess>>
    BY <1>9 DEF Make, table, limit, timers
  <2> QED
    BY <1>a, <1>b, <1>9, <2>1, MakeDoes DEF Becomes, At, Fails, Ends
<1>10. ASSUME NEW c \in Calls, Setup(c) PROVE Covering'
  <2>1. UNCHANGED <<entry, covered, excess>>
    BY <1>10 DEF Setup, table, limit, timers
  <2> QED
    BY <1>a, <1>b, <1>10, <2>1, SetupDoes DEF Becomes, At, Passes, Ends
<1>11. ASSUME NEW c \in Calls, Attach(c) PROVE Covering'
  <2>1. UNCHANGED <<entry, covered, excess>>
    BY <1>11 DEF Attach, table, limit, timers
  <2> QED
    BY <1>a, <1>b, <1>11, <2>1, AttachDoes DEF Becomes, At
<1>12. ASSUME NEW c \in Calls, Insert(c) PROVE Covering'
  BY <1>12 DEF Insert
<1>13. ASSUME NEW c \in Calls, Reread(c) PROVE Covering'
  <2>1. UNCHANGED <<entry, covered, excess>>
    BY <1>13 DEF Reread, table, limit, timers
  <2> QED
    BY <1>a, <1>b, <1>13, <2>1, RereadDoes DEF Becomes, At, Ends
<1>14. ASSUME NEW c \in Calls, List(c) PROVE Covering'
  <2>1. UNCHANGED <<entry, covered, excess>>
    BY <1>14 DEF List, table, limit, timers
  <2> QED
    BY <1>a, <1>b, <1>14, <2>1, ListDoes DEF Becomes, At, Passes, Fails, Ends
<1>15. ASSUME NEW c \in Calls, Lookup(c) PROVE Covering'
  <2>1. UNCHANGED <<entry, covered, excess>>
    BY <1>15 DEF Lookup, table, limit, timers
  <2> QED
    BY <1>a, <1>b, <1>15, <2>1, LookupDoes DEF Becomes, At, Passes
<1>16. ASSUME NEW c \in Calls, Close(c) PROVE Covering'
  <2>1. UNCHANGED <<entry, covered, excess>>
    BY <1>16 DEF Close, table, limit, timers
  <2> QED
    BY <1>a, <1>b, <1>16, <2>1, CloseDoes DEF Becomes, At, Passes, Fails, Ends
<1>17. ASSUME NEW c \in Calls, Find(c) PROVE Covering'
  <2>1. UNCHANGED <<entry, covered, excess>>
    BY <1>17 DEF Find, table, limit, timers
  <2> QED
    BY <1>a, <1>b, <1>17, <2>1, FindDoes DEF Becomes, At, Passes, Ends, Proceeds, After,
       Find
<1>18. ASSUME NEW c \in Calls, Drop(c) PROVE Covering'
  <2> DEFINE t == call[c].victim
  <2>1. t \in Targets /\ Forget(t)
    BY <1>18 DEF Drop, At, Sound, CallsOK, CallOK
  <2>2. \A d \in Calls : call[d].pc \in Evicting => call[d].victim \in Targets
    BY DEF Sound, CallsOK, CallOK
  <2> HIDE DEF t
  <2> QED
    BY <1>a, <1>c, <1>18, <2>1, <2>2, DropDoes DEF Becomes, At, Ends, Proceeds, After, t
<1>19. ASSUME NEW c \in Calls, Use(c) PROVE Covering'
  <2>1. UNCHANGED <<entry, covered, excess>>
    BY <1>19 DEF Use, table, limit, timers
  <2> QED
    BY <1>a, <1>b, <1>19, <2>1, UseDoes DEF Becomes, At, Ends
<1>20. ASSUME NEW c \in Calls, CancelAutoClose(c) PROVE Covering'
  <2>1. UNCHANGED <<entry, covered, excess>>
    BY <1>20 DEF CancelAutoClose, table, limit, timers
  <2> QED
    BY <1>a, <1>b, <1>20, <2>1, CancelAutoCloseDoes DEF Becomes, At, Ends
<1>21. ASSUME NEW c \in Calls, ScheduleAutoClose(c) PROVE Covering'
  <2>1. UNCHANGED <<entry, covered, excess>>
    BY <1>21 DEF ScheduleAutoClose, table, limit, timers
  <2> QED
    BY <1>a, <1>b, <1>21, <2>1, ScheduleAutoCloseDoes DEF Becomes, At, Ends
<1>22. ASSUME NEW c \in Calls, MarkPendingClick(c) PROVE Covering'
  <2>1. UNCHANGED <<entry, covered, excess>>
    BY <1>22 DEF MarkPendingClick, table, limit, timers
  <2> QED
    BY <1>a, <1>b, <1>22, <2>1, MarkPendingClickDoes DEF Becomes, At
<1>23. ASSUME NEW c \in Calls, TakePopup(c) PROVE Covering'
  <2>1. UNCHANGED <<entry, covered, excess>>
    BY <1>23 DEF TakePopup, table, limit, timers
  <2> QED
    BY <1>a, <1>b, <1>23, <2>1, TakePopupDoes DEF Becomes, At
<1>24. ASSUME NEW c \in Calls, ClearAfterPopup(c) PROVE Covering'
  <2>1. UNCHANGED <<entry, covered, excess>>
    BY <1>24 DEF ClearAfterPopup, table, limit, timers
  <2> QED
    BY <1>a, <1>b, <1>24, <2>1, ClearAfterPopupDoes DEF Becomes, At
<1>25. ASSUME NEW c \in Calls, GiveUp(c) PROVE Covering'
  <2>1. UNCHANGED <<entry, covered, excess>>
    BY <1>25 DEF GiveUp, table, limit, timers
  <2> QED
    BY <1>a, <1>b, <1>25, <2>1, GiveUpDoes DEF Becomes, At, Ends, Creates
<1>26. ASSUME NEW c \in Calls, Shut(c) PROVE Covering'
  <2>1. UNCHANGED <<entry, covered, excess>>
    BY <1>26 DEF Shut, table, limit, timers
  <2> QED
    BY <1>a, <1>b, <1>26, <2>1, ShutDoes DEF Becomes, At, Ends, Creates
<1>27. ASSUME NEW t \in Targets, PurgeDrop(t) PROVE Covering'
  <2>1. \A d \in Calls : call[d].pc \in Evicting => call[d].victim \in Targets
    BY DEF Sound, CallsOK, CallOK
  <2> QED
    BY <1>a, <1>c, <1>27, <2>1 DEF PurgeDrop
<1>28. CASE UNCHANGED <<call, entry, covered, excess>>
  BY <1>b, <1>28
<1> QED
  BY <1>1, <1>2, <1>3, <1>4, <1>5, <1>6, <1>7, <1>8, <1>9, <1>10, <1>11, <1>12, <1>13,
     <1>14, <1>15, <1>16, <1>17, <1>18, <1>19, <1>20, <1>21, <1>22, <1>23, <1>24, <1>25,
     <1>26, <1>27, <1>28 DEF vars, table, limit, timers, Next, Start, Step, Purge,
     Popup, PurgeFind, PageDies, PopupOpens, ClaimPendingPopup, GuardPopup, Expire,
     FireStale

(* A call between opening a context for the page and inserting its entry.  *)
InHand(c, t) == call[c].pc \in {"setup", "insert"} /\ call[c].page = t

(* The steps, seen from the contexts and timers: a context is opened,      *)
(* given back or inserted; the context of an entry is cancelled before     *)
(* the entry is removed; an entry is forgotten; its timer is set again;    *)
(* or timers expire and their callbacks run.                               *)
HandsKept ==
  \A c \in Calls, t \in Targets :
    /\ InHand(c, t)' <=> InHand(c, t)
    /\ InHand(c, t) => call'[c].ctx = call[c].ctx

NoDrop ==
  /\ \A c \in Calls : call'[c].pc = "drop" =>
       call[c].pc = "drop" /\ call'[c].victim = call[c].victim
  /\ \A t \in Targets : purging'[t] = "found" => purging[t] = "found"

Alone(c) == \A d \in Calls \ {c} : call'[d] = call[d]

EmptyHanded(c) == \A t \in Targets : ~InHand(c, t)'

Opened(c, t) ==
  /\ opens' = [opens EXCEPT ![t] = @ + 1]
  /\ live' = [live EXCEPT ![t] = @ \cup {opens[t] + 1}]
  /\ Alone(c) /\ call'[c].ctx = opens[t] + 1
  /\ \A u \in Targets : ~InHand(c, u) /\ (InHand(c, u)' <=> u = t)
  /\ NoDrop /\ UNCHANGED <<entry, timers>>

GivenBack(c, t) ==
  /\ InHand(c, t) /\ Cancel(t, call[c].ctx)
  /\ Alone(c) /\ EmptyHanded(c)
  /\ NoDrop /\ UNCHANGED <<opens, entry, timers>>

Inserted(c, t) ==
  /\ InHand(c, t)
  /\ entry' = [entry EXCEPT ![t] = call[c].ctx]
  /\ gen' = [gen EXCEPT ![t] = 0]
  /\ Alone(c) /\ EmptyHanded(c)
  /\ NoDrop /\ UNCHANGED <<contexts, armed, fired>>

Marked(t) ==
  /\ Cancel(t, entry[t])
  /\ \A c \in Calls : call'[c].pc = "drop" =>
       \/ call[c].pc = "drop" /\ call'[c].victim = call[c].victim
       \/ IsTracked(t) /\ call'[c].victim = t
  /\ \A u \in Targets :
       purging'[u] = "found" => purging[u] = "found" \/ (IsTracked(t) /\ u = t)
  /\ HandsKept /\ UNCHANGED <<opens, entry, timers>>

Forgotten(t) ==
  /\ purging[t] = "found" \/ \E c \in Calls : call[c].pc = "drop" /\ call[c].victim = t
  /\ Forget(t)
  /\ HandsKept /\ NoDrop /\ UNCHANGED contexts

Rearmed(t) ==
  /\ IsTracked(t)
  /\ \/ Rearm(t, {})
     \/ Rearm(t, {[tab |-> t, gen |-> gen[t] + 1, of |-> entry[t]]})
  /\ HandsKept /\ NoDrop /\ UNCHANGED <<contexts, entry, fired>>

Ticks ==
  /\ armed' \subseteq armed /\ fired' \subseteq armed \cup fired
  /\ HandsKept /\ NoDrop /\ UNCHANGED <<contexts, entry, gen>>

Classified ==
  \/ \E c \in Calls, t \in Targets : Opened(c, t) \/ GivenBack(c, t) \/ Inserted(c, t)
  \/ \E t \in Targets : Marked(t) \/ Forgotten(t) \/ Rearmed(t)
  \/ Ticks

LEMMA HandsAndDrops ==
  ASSUME Sound, NEW c \in Calls, NEW pc, NEW then, NEW tab, NEW pg, NEW victim, NEW ctx,
         Becomes(c, pc, tab, pg, victim, ctx, then), purging' = purging,
         call[c].pc \notin {"setup", "insert"}, pc \notin {"setup", "insert", "drop"}
  PROVE  HandsKept /\ NoDrop
BY DEF Becomes, HandsKept, NoDrop, InHand

(* Every step is one of them.                                              *)
LEMMA ClassifiedStep == Sound /\ [Next]_vars => Classified
<1> SUFFICES ASSUME Sound, [Next]_vars PROVE Classified
  OBVIOUS
<1> USE DEF timers, contexts, browser, table
<1>1. ASSUME NEW c \in Calls, StartCreate(c) PROVE Classified
  <2>1. /\ UNCHANGED <<contexts, entry, gen>>
        /\ armed' \subseteq armed /\ fired' \subseteq armed \cup fired
    BY <1>1 DEF StartCreate
  <2>2. \A t \in Targets : purging'[t] = "found" => purging[t] = "found"
    BY <1>1 DEF StartCreate
  <2>3. HandsKept /\ NoDrop
    BY <1>1, <2>2, StartCreateDoes DEF Becomes, At, HandsKept, NoDrop, InHand
  <2> QED
    BY <2>1, <2>3 DEF Ticks, Classified
<1>2. ASSUME NEW c \in Calls, StartClose(c) PROVE Classified
  <2>1. /\ UNCHANGED <<contexts, entry, gen>>
        /\ armed' \subseteq armed /\ fired' \subseteq armed \cup fired
    BY <1>2 DEF StartClose
  <2>2. \A t \in Targets : purging'[t] = "found" => purging[t] = "found"
    BY <1>2 DEF StartClose
  <2>3. HandsKept /\ NoDrop
    BY <1>2, <2>2, StartCloseDoes DEF Becomes, At, HandsKept, NoDrop, InHand
  <2> QED
    BY <2>1, <2>3 DEF Ticks, Classified
<1>3. ASSUME NEW c \in Calls, StartRequest(c) PROVE Classified
  <2>1. /\ UNCHANGED <<contexts, entry, gen>>
        /\ armed' \subseteq armed /\ fired' \subseteq armed \cup fired
    BY <1>3 DEF StartRequest
  <2>2. \A t \in Targets : purging'[t] = "found" => purging[t] = "found"
    BY <1>3 DEF StartRequest
  <2>3. HandsKept /\ NoDrop
    BY <1>3, <2>2, StartRequestDoes DEF Becomes, At, HandsKept, NoDrop, InHand
  <2> QED
    BY <2>1, <2>3 DEF Ticks, Classified
<1>4. ASSUME NEW c \in Calls, Fire(c) PROVE Classified
  <2>1. /\ UNCHANGED <<contexts, entry, gen>>
        /\ armed' \subseteq armed /\ fired' \subseteq armed \cup fired
    BY <1>4 DEF Fire, OfEntry
  <2>2. \A t \in Targets : purging'[t] = "found" => purging[t] = "found"
    BY <1>4 DEF Fire
  <2>3. HandsKept /\ NoDrop
    BY <1>4, <2>2, FireDoes DEF Becomes, At, HandsKept, NoDrop, InHand
  <2> QED
    BY <2>1, <2>3 DEF Ticks, Classified
<1>5. ASSUME NEW c \in Calls, Resolve(c) PROVE Classified
  <2>1. /\ UNCHANGED <<contexts, entry, gen>>
        /\ armed' \subseteq armed /\ fired' \subseteq armed \cup fired
    BY <1>5 DEF Resolve
  <2>2. \A t \in Targets : purging'[t] = "found" => purging[t] = "found"
    BY <1>5 DEF Resolve
  <2>3. HandsKept /\ NoDrop
    BY <1>5, <2>2, ResolveDoes DEF Becomes, At, Ends, HandsKept, NoDrop, InHand
  <2> QED
    BY <2>1, <2>3 DEF Ticks, Classified
<1>6. ASSUME NEW c \in Calls, Adopt(c) PROVE Classified
  <2>1. /\ UNCHANGED <<contexts, entry, gen>>
        /\ armed' \subseteq armed /\ fired' \subseteq armed \cup fired
    BY <1>6 DEF Adopt
  <2>2. \A t \in Targets : purging'[t] = "found" => purging[t] = "found"
    BY <1>6 DEF Adopt
  <2>3. HandsKept /\ NoDrop
    BY <1>6, <2>2, AdoptDoes DEF Becomes, At, Passes, HandsKept, NoDrop, InHand
  <2> QED
    BY <2>1, <2>3 DEF Ticks, Classified
<1>7. ASSUME NEW c \in Calls, Count(c) PROVE Classified
  <2>1. /\ UNCHANGED <<contexts, entry, gen>>
        /\ armed' \subseteq armed /\ fired' \subseteq armed \cup fired
    BY <1>7 DEF Count
  <2>2. \A t \in Targets : purging'[t] = "found" => purging[t] = "found"
    BY <1>7 DEF Count
  <2>3. HandsKept /\ NoDrop
    BY <1>7, <2>2, CountDoes DEF Becomes, At, Passes, Fails, Proceeds, Ends, After,
       HandsKept, NoDrop, InHand
  <2> QED
    BY <2>1, <2>3 DEF Ticks, Classified
<1>8. ASSUME NEW c \in Calls, Choose(c) PROVE Classified
  <2>1. /\ UNCHANGED <<contexts, entry, gen>>
        /\ armed' \subseteq armed /\ fired' \subseteq armed \cup fired
    BY <1>8 DEF Choose
  <2>2. \A t \in Targets : purging'[t] = "found" => purging[t] = "found"
    BY <1>8 DEF Choose
  <2>3. HandsKept /\ NoDrop
    BY <1>8, <2>2, ChooseDoes DEF Becomes, At, Fails, Ends, HandsKept, NoDrop, InHand
  <2> QED
    BY <2>1, <2>3 DEF Ticks, Classified
<1>9. ASSUME NEW c \in Calls, Make(c) PROVE Classified
  <2>1. UNCHANGED <<entry, timers, purging>>
    BY <1>9 DEF Make
  <2>2. CASE Fail(c) /\ UNCHANGED contexts
    <3>1. Fails(c) /\ call[c].pc = "make"
      BY <1>9, <2>2, FailIs DEF Make, At, Fails, Ends, Sound
    <3>2. HandsKept /\ NoDrop
      BY <2>1, <3>1 DEF Fails, Ends, Becomes, HandsKept, NoDrop, InHand
    <3> QED
      BY <2>1, <2>2, <3>2 DEF Ticks, Classified
  <2>3. ASSUME NEW t \in Targets, NewContext(c, t, "setup") PROVE Classified
    <3> DEFINE n == opens[t] + 1
    <3>1. n \in Nat
      BY DEF Sound, ContextTypes
    <3>2. call' = [call EXCEPT ![c].pc = "setup", ![c].page = t, ![c].ctx = n]
      BY <2>3 DEF NewContext
    <3> HIDE DEF n
    <3>3. Becomes(c, "setup", call[c].tab, t, call[c].victim, n, call[c].then)
      BY <3>1, <3>2, ContextIs DEF Pcs, Sound
    <3>4. /\ opens' = [opens EXCEPT ![t] = @ + 1]
          /\ live' = [live EXCEPT ![t] = @ \cup {opens[t] + 1}]
      BY <2>3 DEF NewContext
    <3>5. call[c].pc = "make"
      BY <1>9 DEF Make, At
    <3>6. Opened(c, t)
      BY <2>1, <3>3, <3>4, <3>5 DEF Becomes, Opened, Alone, InHand, NoDrop, n
    <3> QED
      BY <3>6 DEF Classified
  <2> QED
    BY <1>9, <2>2, <2>3 DEF Make
<1>10. ASSUME NEW c \in Calls, Setup(c) PROVE Classified
  <2>1. UNCHANGED <<opens, entry, timers>>
    BY <1>10 DEF Setup
  <2>2. \A t \in Targets : purging'[t] = "found" => purging[t] = "found"
    BY <1>10 DEF Setup, CloseTarget, CloseTargetFails, Gone, Sound, BrowserTypes
  <2>3. CASE Goto(c, "insert") /\ UNCHANGED contexts
    <3>1. Passes(c, "insert") /\ call[c].pc = "setup"
      BY <1>10, <2>3, GotoIs DEF Setup, At, Passes, Pcs, Sound
    <3>2. HandsKept /\ NoDrop
      BY <2>2, <3>1 DEF Passes, Becomes, HandsKept, NoDrop, InHand
    <3> QED
      BY <2>1, <2>3, <3>2 DEF Ticks, Classified
  <2>4. CASE Cancel(call[c].page, call[c].ctx) /\ End(c)
    <3> DEFINE t == call[c].page
    <3>1. Ends(c) /\ call[c].pc = "setup" /\ t \in Targets
      BY <1>10, <2>4, EndIs DEF Setup, At, Ends, Sound, CallsOK, CallOK
    <3>2. Alone(c) /\ EmptyHanded(c) /\ NoDrop
      BY <2>2, <3>1 DEF Ends, Becomes, Alone, EmptyHanded, NoDrop, InHand
    <3>3. GivenBack(c, t)
      BY <2>1, <2>4, <3>1, <3>2 DEF GivenBack, InHand
    <3> QED
      BY <3>1, <3>3 DEF Classified
  <2> QED
    BY <1>10, <2>3, <2>4 DEF Setup
<1>11. ASSUME NEW c \in Calls, Attach(c) PROVE Classified
  <2> DEFINE t == call[c].page
  <2>1. t \in Targets
    BY <1>11, AttachDoes DEF At, Sound, CallsOK, CallOK
  <2>2. /\ opens' = [opens EXCEPT ![t] = @ + 1]
        /\ live' = [live EXCEPT ![t] = @ \cup {opens[t] + 1}]
        /\ UNCHANGED <<entry, timers, purging>>
    BY <1>11 DEF Attach, NewContext
  <2>3. Opened(c, t)
    BY <1>11, <2>1, <2>2, AttachDoes DEF Becomes, At, Opened, Alone, InHand, NoDrop
  <2> QED
    BY <2>1, <2>3 DEF Classified
<1>12. ASSUME NEW c \in Calls, Insert(c) PROVE Classified
  <2> DEFINE t == call[c].page
  <2>1. t \in Targets
    BY <1>12, InsertDoes DEF At, Sound, CallsOK, CallOK
  <2>2. /\ entry' = [entry EXCEPT ![t] = call[c].ctx] /\ gen' = [gen EXCEPT ![t] = 0]
        /\ UNCHANGED <<contexts, armed, fired, purging>>
    BY <1>12 DEF Insert
  <2>3. InHand(c, t) /\ Alone(c) /\ EmptyHanded(c) /\ NoDrop
    BY <1>12, <2>2, InsertDoes DEF At, Passes, Becomes, Alone, EmptyHanded, NoDrop,
       InHand
  <2> QED
    BY <2>1, <2>2, <2>3 DEF Inserted, Classified
<1>13. ASSUME NEW c \in Calls, Reread(c) PROVE Classified
  <2>1. /\ UNCHANGED <<contexts, entry, gen>>
        /\ armed' \subseteq armed /\ fired' \subseteq armed \cup fired
    BY <1>13 DEF Reread
  <2>2. \A t \in Targets : purging'[t] = "found" => purging[t] = "found"
    BY <1>13 DEF Reread
  <2>3. HandsKept /\ NoDrop
    BY <1>13, <2>2, RereadDoes DEF Becomes, At, Ends, HandsKept, NoDrop, InHand
  <2> QED
    BY <2>1, <2>3 DEF Ticks, Classified
<1>14. ASSUME NEW c \in Calls, List(c) PROVE Classified
  <2>1. /\ UNCHANGED <<contexts, entry, gen>>
        /\ armed' \subseteq armed /\ fired' \subseteq armed \cup fired
    BY <1>14 DEF List
  <2>2. \A t \in Targets : purging'[t] = "found" => purging[t] = "found"
    BY <1>14 DEF List
  <2>3. HandsKept /\ NoDrop
    BY <1>14, <2>2, ListDoes DEF Becomes, At, Passes, Fails, Ends, HandsKept, NoDrop,
       InHand
  <2> QED
    BY <2>1, <2>3 DEF Ticks, Classified
<1>15. ASSUME NEW c \in Calls, Lookup(c) PROVE Classified
  <2> DEFINE t == call[c].victim
  <2>1. t \in Targets
    BY <1>15, LookupDoes DEF At, Sound, CallsOK, CallOK, Evicting
  <2>2. Cancel(t, entry[t]) /\ UNCHANGED <<opens, entry, timers, purging>>
    BY <1>15 DEF Lookup
  <2>3. HandsKept
    BY <1>15, LookupDoes DEF Becomes, At, Passes, HandsKept, InHand
  <2>4. \A d \in Calls : call'[d].pc = "drop" =>
          \/ call[d].pc = "drop" /\ call'[d].victim = call[d].victim
          \/ IsTracked(t) /\ call'[d].victim = t
    BY <1>15, LookupDoes DEF Becomes, At, Passes
  <2> HIDE DEF t
  <2>5. Marked(t)
    BY <2>2, <2>3, <2>4 DEF Marked, IsTracked
  <2> QED
    BY <2>1, <2>5 DEF Classified
<1>16. ASSUME NEW c \in Calls, Close(c) PROVE Classified
  <2>1. /\ UNCHANGED <<contexts, entry, gen>>
        /\ armed' \subseteq armed /\ fired' \subseteq armed \cup fired
    BY <1>16 DEF Close
  <2>2. \A t \in Targets : purging'[t] = "found" => purging[t] = "found"
    BY <1>16 DEF Close, CloseTarget, CloseTargetFails, Gone, Sound, BrowserTypes
  <2>3. HandsKept /\ NoDrop
    BY <1>16, <2>2, CloseDoes DEF Becomes, At, Passes, Fails, Ends, HandsKept, NoDrop,
       InHand
  <2> QED
    BY <2>1, <2>3 DEF Ticks, Classified
<1>17. ASSUME NEW c \in Calls, Find(c) PROVE Classified
  <2> DEFINE t == call[c].victim
  <2>1. t \in Targets
    BY <1>17, FindDoes DEF At, Sound, CallsOK, CallOK, Evicting
  <2>2. Cancel(t, entry[t]) /\ UNCHANGED <<opens, entry, timers, purging>>
    BY <1>17 DEF Find
  <2>3. HandsKept
    BY <1>17, FindDoes DEF Becomes, At, Passes, Ends, Proceeds, After, HandsKept, InHand
  <2>4. \A d \in Calls : call'[d].pc = "drop" =>
          \/ call[d].pc = "drop" /\ call'[d].victim = call[d].victim
          \/ IsTracked(t) /\ call'[d].victim = t
    BY <1>17, FindDoes DEF Becomes, At, Passes, Ends, Proceeds, After
  <2> HIDE DEF t
  <2>5. Marked(t)
    BY <2>2, <2>3, <2>4 DEF Marked, IsTracked
  <2> QED
    BY <2>1, <2>5 DEF Classified
<1>18. ASSUME NEW c \in Calls, Drop(c) PROVE Classified
  <2> DEFINE t == call[c].victim
  <2>1. t \in Targets /\ call[c].pc = "drop"
    BY <1>18, DropDoes DEF At, Sound, CallsOK, CallOK, Evicting
  <2>2. Forget(t) /\ UNCHANGED <<contexts, purging>>
    BY <1>18 DEF Drop
  <2>3. HandsKept /\ NoDrop
    BY <1>18, <2>2, DropDoes DEF Becomes, At, Ends, Proceeds, After, HandsKept, NoDrop,
       InHand
  <2> QED
    BY <2>1, <2>2, <2>3 DEF Forgotten, Classified
<1>19. ASSUME NEW c \in Calls, Use(c) PROVE Classified
  <2>1. /\ UNCHANGED <<contexts, entry, gen>>
        /\ armed' \subseteq armed /\ fired' \subseteq armed \cup fired
    BY <1>19 DEF Use
  <2>2. \A t \in Targets : purging'[t] = "found" => purging[t] = "found"
    BY <1>19 DEF Use
  <2>3. HandsKept /\ NoDrop
    BY <1>19, <2>2, UseDoes DEF Becomes, At, Ends, HandsKept, NoDrop, InHand
  <2> QED
    BY <2>1, <2>3 DEF Ticks, Classified
<1>20. ASSUME NEW c \in Calls, CancelAutoClose(c) PROVE Classified
  <2>1. UNCHANGED <<contexts, entry, fired, purging>>
    BY <1>20 DEF CancelAutoClose
  <2>2. HandsKept /\ NoDrop
    BY <1>20, <2>1, CancelAutoCloseDoes DEF Becomes, At, Ends, HandsKept, NoDrop, InHand
  <2>3. CASE Timed(call[c].tab)
    <3> DEFINE t == call[c].tab
    <3>1. t \in Targets
      BY <1>20, CancelAutoCloseDoes DEF At, Sound, CallsOK, CallOK
    <3>2. Rearmed(t)
      BY <1>20, <2>1, <2>2, <2>3 DEF CancelAutoClose, Rearmed, Timed
    <3> QED
      BY <3>1, <3>2 DEF Classified
  <2>4. CASE ~Timed(call[c].tab)
    BY <1>20, <2>1, <2>2, <2>4 DEF CancelAutoClose, Ticks, Classified
  <2> QED
    BY <2>3, <2>4
<1>21. ASSUME NEW c \in Calls, ScheduleAutoClose(c) PROVE Classified
  <2>1. UNCHANGED <<contexts, entry, fired, purging>>
    BY <1>21 DEF ScheduleAutoClose
  <2>2. HandsKept /\ NoDrop
    BY <1>21, <2>1, ScheduleAutoCloseDoes DEF Becomes, At, Ends, HandsKept, NoDrop,
       InHand
  <2>3. CASE Timed(call[c].tab)
    <3> DEFINE t == call[c].tab
    <3>1. t \in Targets
      BY <1>21, ScheduleAutoCloseDoes DEF At, Sound, CallsOK, CallOK
    <3>2. Rearmed(t)
      BY <1>21, <2>1, <2>2, <2>3 DEF ScheduleAutoClose, Rearmed, Timed
    <3> QED
      BY <3>1, <3>2 DEF Classified
  <2>4. CASE ~Timed(call[c].tab)
    BY <1>21, <2>1, <2>2, <2>4 DEF ScheduleAutoClose, Ticks, Classified
  <2> QED
    BY <2>3, <2>4
<1>22. ASSUME NEW c \in Calls, MarkPendingClick(c) PROVE Classified
  <2>1. /\ UNCHANGED <<contexts, entry, gen>>
        /\ armed' \subseteq armed /\ fired' \subseteq armed \cup fired
    BY <1>22 DEF MarkPendingClick
  <2>2. \A t \in Targets : purging'[t] = "found" => purging[t] = "found"
    BY <1>22 DEF MarkPendingClick
  <2>3. HandsKept /\ NoDrop
    BY <1>22, <2>2, MarkPendingClickDoes DEF Becomes, At, HandsKept, NoDrop, InHand
  <2> QED
    BY <2>1, <2>3 DEF Ticks, Classified
<1>23. ASSUME NEW c \in Calls, TakePopup(c) PROVE Classified
  <2>1. /\ UNCHANGED <<contexts, entry, gen>>
        /\ armed' \subseteq armed /\ fired' \subseteq armed \cup fired
    BY <1>23 DEF TakePopup
  <2>2. \A t \in Targets : purging'[t] = "found" => purging[t] = "found"
    BY <1>23 DEF TakePopup
  <2>3. HandsKept /\ NoDrop
    BY <1>23, <2>2, TakePopupDoes DEF Becomes, At, HandsKept, NoDrop, InHand
  <2> QED
    BY <2>1, <2>3 DEF Ticks, Classified
<1>24. ASSUME NEW c \in Calls, ClearAfterPopup(c) PROVE Classified
  <2>1. /\ UNCHANGED <<contexts, entry, gen>>
        /\ armed' \subseteq armed /\ fired' \subseteq armed \cup fired
    BY <1>24 DEF ClearAfterPopup
  <2>2. \A t \in Targets : purging'[t] = "found" => purging[t] = "found"
    BY <1>24 DEF ClearAfterPopup
  <2>3. HandsKept /\ NoDrop
    BY <1>24, <2>2, ClearAfterPopupDoes DEF Becomes, At, HandsKept, NoDrop, InHand
  <2> QED
    BY <2>1, <2>3 DEF Ticks, Classified
<1>25. ASSUME NEW c \in Calls, GiveUp(c) PROVE Classified
  <2>1. /\ UNCHANGED <<contexts, entry, gen>>
        /\ armed' \subseteq armed /\ fired' \subseteq armed \cup fired
    BY <1>25 DEF GiveUp
  <2>2. \A t \in Targets : purging'[t] = "found" => purging[t] = "found"
    BY <1>25 DEF GiveUp
  <2>3. HandsKept /\ NoDrop
    BY <1>25, <2>2, GiveUpDoes DEF Becomes, At, Ends, Creates, HandsKept, NoDrop, InHand
  <2> QED
    BY <2>1, <2>3 DEF Ticks, Classified
<1>26. ASSUME NEW c \in Calls, Shut(c) PROVE Classified
  <2>1. /\ UNCHANGED <<contexts, entry, gen>>
        /\ armed' \subseteq armed /\ fired' \subseteq armed \cup fired
    BY <1>26 DEF Shut
  <2>2. \A t \in Targets : purging'[t] = "found" => purging[t] = "found"
    BY <1>26 DEF Shut, CloseTarget, CloseTargetFails, Gone, Sound, BrowserTypes
  <2>3. HandsKept /\ NoDrop
    BY <1>26, <2>2, ShutDoes DEF Becomes, At, Ends, Creates, HandsKept, NoDrop, InHand
  <2> QED
    BY <2>1, <2>3 DEF Ticks, Classified
<1>27. ASSUME NEW t \in Targets, PurgeFind(t) PROVE Classified
  <2>1. Cancel(t, entry[t]) /\ UNCHANGED <<opens, entry, timers, call>>
    BY <1>27 DEF PurgeFind
  <2>2. \A u \in Targets :
          purging'[u] = "found" => purging[u] = "found" \/ (IsTracked(t) /\ u = t)
    <3>1. purging' = [purging EXCEPT ![t] = IF IsTracked(t) THEN "found" ELSE "done"]
      BY <1>27 DEF PurgeFind
    <3>2. \A u \in Targets : u # t => purging'[u] = purging[u]
      BY <3>1 DEF Sound, BrowserTypes
    <3>3. ~IsTracked(t) => purging'[t] = "done"
      BY <3>1 DEF Sound, BrowserTypes
    <3> QED
      BY <3>2, <3>3 DEF IsTracked
  <2> QED
    BY <2>1, <2>2 DEF Marked, HandsKept, InHand, Classified
<1>28. ASSUME NEW t \in Targets, PurgeDrop(t) PROVE Classified
  <2>1. Forget(t) /\ purging[t] = "found" /\ UNCHANGED <<contexts, call>>
    BY <1>28 DEF PurgeDrop
  <2>2. \A u \in Targets : purging'[u] = "found" => purging[u] = "found"
    BY <1>28 DEF PurgeDrop, Sound, BrowserTypes
  <2> QED
    BY <2>1, <2>2 DEF Forgotten, HandsKept, NoDrop, InHand, Classified
<1>29. ASSUME NEW t \in Targets, PageDies(t) PROVE Classified
  <2>1. /\ UNCHANGED <<contexts, entry, gen, call>>
        /\ armed' \subseteq armed /\ fired' \subseteq armed \cup fired
    BY <1>29 DEF PageDies, Gone
  <2>2. \A u \in Targets : purging'[u] = "found" => purging[u] = "found"
    BY <1>29 DEF PageDies, Gone, Sound, BrowserTypes
  <2> QED
    BY <2>1, <2>2 DEF Ticks, HandsKept, NoDrop, InHand, Classified
<1>30. ASSUME NEW t \in Targets, NEW p \in Targets, PopupOpens(t, p) PROVE Classified
  <2>1. /\ UNCHANGED <<contexts, entry, gen, call>>
        /\ armed' \subseteq armed /\ fired' \subseteq armed \cup fired
    BY <1>30 DEF PopupOpens
  <2>2. \A u \in Targets : purging'[u] = "found" => purging[u] = "found"
    BY <1>30 DEF PopupOpens, Sound, BrowserTypes
  <2> QED
    BY <2>1, <2>2 DEF Ticks, HandsKept, NoDrop, InHand, Classified
<1>31. ASSUME NEW p \in Targets, ClaimPendingPopup(p) PROVE Classified
  <2>1. /\ UNCHANGED <<contexts, entry, gen, call>>
        /\ armed' \subseteq armed /\ fired' \subseteq armed \cup fired
    BY <1>31 DEF ClaimPendingPopup, Heard
  <2>2. \A u \in Targets : purging'[u] = "found" => purging[u] = "found"
    BY <1>31 DEF ClaimPendingPopup, Heard, Sound, BrowserTypes
  <2> QED
    BY <2>1, <2>2 DEF Ticks, HandsKept, NoDrop, InHand, Classified
<1>32. ASSUME NEW p \in Targets, GuardPopup(p) PROVE Classified
  <2>1. /\ UNCHANGED <<contexts, entry, gen, call>>
        /\ armed' \subseteq armed /\ fired' \subseteq armed \cup fired
    BY <1>32 DEF GuardPopup, Gone
  <2>2. \A u \in Targets : purging'[u] = "found" => purging[u] = "found"
    BY <1>32 DEF GuardPopup, Gone, Sound, BrowserTypes
  <2> QED
    BY <2>1, <2>2 DEF Ticks, HandsKept, NoDrop, InHand, Classified
<1>33. CASE Expire
  <2>1. /\ UNCHANGED <<contexts, entry, gen, call>>
        /\ armed' \subseteq armed /\ fired' \subseteq armed \cup fired
    BY <1>33 DEF Expire
  <2>2. \A u \in Targets : purging'[u] = "found" => purging[u] = "found"
    BY <1>33 DEF Expire, Sound, BrowserTypes
  <2> QED
    BY <2>1, <2>2 DEF Ticks, HandsKept, NoDrop, InHand, Classified
<1>34. CASE FireStale
  <2>1. /\ UNCHANGED <<contexts, entry, gen, call>>
        /\ armed' \subseteq armed /\ fired' \subseteq armed \cup fired
    BY <1>34 DEF FireStale
  <2>2. \A u \in Targets : purging'[u] = "found" => purging[u] = "found"
    BY <1>34 DEF FireStale, Sound, BrowserTypes
  <2> QED
    BY <2>1, <2>2 DEF Ticks, HandsKept, NoDrop, InHand, Classified
<1>35. CASE UNCHANGED vars
  <2>1. /\ UNCHANGED <<contexts, entry, gen, call>>
        /\ armed' \subseteq armed /\ fired' \subseteq armed \cup fired
    BY <1>35 DEF vars
  <2>2. \A u \in Targets : purging'[u] = "found" => purging[u] = "found"
    BY <1>35 DEF vars, Sound, BrowserTypes
  <2> QED
    BY <2>1, <2>2 DEF Ticks, HandsKept, NoDrop, InHand, Classified
<1> QED
  BY <1>1, <1>2, <1>3, <1>4, <1>5, <1>6, <1>7, <1>8, <1>9, <1>10, <1>11, <1>12, <1>13,
     <1>14, <1>15, <1>16, <1>17, <1>18, <1>19, <1>20, <1>21, <1>22, <1>23, <1>24, <1>25,
     <1>26, <1>27, <1>28, <1>29, <1>30, <1>31, <1>32, <1>33, <1>34, <1>35 DEF Next,
     Start, Step, Purge, Popup

(* Contexts are numbered per page from 1; a timer exists for opened        *)
(* pages.                                                                  *)
Numbered ==
  /\ \A t \in Targets : entry[t] <= opens[t] /\ \A x \in live[t] : x <= opens[t]
  /\ \A c \in Calls, t \in Targets : InHand(c, t) => call[c].ctx \in 1..opens[t]
  /\ \A a \in armed \cup fired : opens[a.tab] > 0

(* Who is about to remove an entry has cancelled its context.              *)
Cancelled ==
  /\ \A c \in Calls : call[c].pc = "drop" =>
       /\ opens[call[c].victim] # 0
       /\ opens[call[c].victim] = 1 => live[call[c].victim] = {}
  /\ \A t \in Targets : purging[t] = "found" =>
       opens[t] # 0 /\ (opens[t] = 1 => live[t] = {})

(* Two calls hold different contexts of one page.                          *)
Apart ==
  \A c, d \in Calls, t \in Targets :
    c # d /\ InHand(c, t) /\ InHand(d, t) => call[c].ctx # call[d].ctx

(* ContextsOwned, in terms of InHand.                                      *)
Owned ==
  \A t \in Targets : opens[t] = 1 /\ live[t] # {} =>
    entry[t] = 1 \/ \E c \in Calls : InHand(c, t)

Untimed(t) == \A a \in armed \cup fired : a.tab # t

(* While its only context is in the hands of a call, a page has neither    *)
(* an entry nor timers; all its timers are those of its entry, of this or  *)
(* an earlier generation; without an entry none runs.                      *)
FreshTab(t) ==
  /\ (\E c \in Calls : InHand(c, t)) => entry[t] = 0 /\ Untimed(t)
  /\ \A a \in armed \cup fired :
       a.tab = t => a.of = 1 /\ (entry[t] # 0 => a.gen <= gen[t])
  /\ entry[t] = 0 => \A a \in armed : a.tab # t

Fresh == \A t \in Targets : opens[t] = 1 => FreshTab(t)

(* The timers that run or whose callback would close the tab.              *)
Closers(t) == {a \in armed : a.tab = t} \cup {f \in fired : f.tab = t /\ Current(f)}

OneCloser == \A t \in Targets : opens[t] = 1 => \A a, b \in Closers(t) : a = b

TabInv ==
  /\ Sound /\ Numbered /\ Cancelled /\ Apart /\ Owned /\ Fresh /\ OneCloser

LEMMA InitTabInv == Init => Numbered /\ Cancelled /\ Apart /\ Owned /\ Fresh /\ OneCloser
BY DEF Init, Numbered, Cancelled, Apart, Owned, Fresh, FreshTab, Untimed, OneCloser,
   Closers, InHand, Idle

Basics ==
  /\ ContextTypes /\ TableTypes
  /\ \A c \in Calls : call[c].ctx \in Nat
  /\ \A c \in Calls : call[c].pc = "drop" => call[c].victim \in Targets

LEMMA SoundBasics == Sound => Basics
BY DEF Sound, Basics, CallTypes, CallRecord, CallsOK, CallOK, Evicting

LEMMA AloneHands ==
  ASSUME NEW c \in Calls, Alone(c)
  PROVE  \A d \in Calls \ {c}, t \in Targets :
           (InHand(d, t)' <=> InHand(d, t)) /\ call'[d].ctx = call[d].ctx
BY DEF Alone, InHand

(* Each conjunct is kept by each class of steps.                           *)
LEMMA NumberedStep == TabInv /\ Classified => Numbered'
<1> SUFFICES ASSUME TabInv, Classified PROVE Numbered'
  OBVIOUS
<1>t. Basics
  BY SoundBasics DEF TabInv
<1> USE <1>t DEF TabInv, Numbered, IsTracked, contexts, timers, Timer, Basics,
               ContextTypes, TableTypes
<1>1. ASSUME NEW c \in Calls, NEW t \in Targets, Opened(c, t) PROVE Numbered'
  <2>1. \A d \in Calls \ {c}, u \in Targets :
          (InHand(d, u)' <=> InHand(d, u)) /\ call'[d].ctx = call[d].ctx
    BY <1>1, AloneHands DEF Opened
  <2> QED
    BY <1>1, <2>1 DEF Opened
<1>2. ASSUME NEW c \in Calls, NEW t \in Targets, GivenBack(c, t) PROVE Numbered'
  <2>1. \A d \in Calls \ {c}, u \in Targets :
          (InHand(d, u)' <=> InHand(d, u)) /\ call'[d].ctx = call[d].ctx
    BY <1>2, AloneHands DEF GivenBack
  <2> QED
    BY <1>2, <2>1 DEF GivenBack, EmptyHanded, Cancel
<1>3. ASSUME NEW c \in Calls, NEW t \in Targets, Inserted(c, t) PROVE Numbered'
  <2>1. \A d \in Calls \ {c}, u \in Targets :
          (InHand(d, u)' <=> InHand(d, u)) /\ call'[d].ctx = call[d].ctx
    BY <1>3, AloneHands DEF Inserted
  <2> QED
    BY <1>3, <2>1 DEF Inserted, EmptyHanded
<1>4. ASSUME NEW t \in Targets, Marked(t) PROVE Numbered'
  BY <1>4 DEF Marked, Cancel, HandsKept
<1>5. ASSUME NEW t \in Targets, Forgotten(t) PROVE Numbered'
  BY <1>5 DEF Forgotten, Forget, OfEntry, HandsKept, limit
<1>6. ASSUME NEW t \in Targets, Rearmed(t) PROVE Numbered'
  BY <1>6 DEF Rearmed, Rearm, OfEntry, HandsKept
<1>7. CASE Ticks
  BY <1>7 DEF Ticks, HandsKept
<1> QED
  BY <1>1, <1>2, <1>3, <1>4, <1>5, <1>6, <1>7 DEF Classified

LEMMA CancelledStep == TabInv /\ Classified => Cancelled'
<1> SUFFICES ASSUME TabInv, Classified PROVE Cancelled'
  OBVIOUS
<1>t. Basics
  BY SoundBasics DEF TabInv
<1>d. ASSUME NEW c \in Calls, call[c].pc = "drop"
      PROVE  /\ call[c].victim \in Targets /\ opens[call[c].victim] # 0
             /\ opens[call[c].victim] = 1 => live[call[c].victim] = {}
  BY <1>t, <1>d DEF TabInv, Cancelled, Basics
<1> USE <1>t DEF TabInv, Cancelled, Numbered, IsTracked, contexts, timers, Timer,
   Basics, ContextTypes, TableTypes
<1>1. ASSUME NEW c \in Calls, NEW t \in Targets, Opened(c, t) PROVE Cancelled'
  BY <1>1 DEF Opened, NoDrop
<1>2. ASSUME NEW c \in Calls, NEW t \in Targets, GivenBack(c, t) PROVE Cancelled'
  BY <1>2 DEF GivenBack, EmptyHanded, Cancel, NoDrop
<1>3. ASSUME NEW c \in Calls, NEW t \in Targets, Inserted(c, t) PROVE Cancelled'
  BY <1>3 DEF Inserted, EmptyHanded, NoDrop
<1>4. ASSUME NEW t \in Targets, Marked(t) PROVE Cancelled'
  <2>1. \A u \in Targets : live'[u] \subseteq live[u]
    BY <1>4 DEF Marked, Cancel
  <2>2. IsTracked(t) => opens[t] # 0 /\ (opens[t] = 1 => live'[t] = {})
    BY <1>4 DEF Marked, Cancel
  <2>3. UNCHANGED opens
    BY <1>4 DEF Marked
  <2>4. \A u \in Targets : purging'[u] = "found" =>
          opens'[u] # 0 /\ (opens'[u] = 1 => live'[u] = {})
    BY <1>4, <2>1, <2>2, <2>3 DEF Marked
  <2>5. ASSUME NEW c \in Calls, call'[c].pc = "drop"
        PROVE  /\ opens'[call'[c].victim] # 0
               /\ opens'[call'[c].victim] = 1 => live'[call'[c].victim] = {}
    <3>1. CASE call[c].pc = "drop" /\ call'[c].victim = call[c].victim
      <4> DEFINE v == call[c].victim
      <4>1. v \in Targets /\ opens[v] # 0 /\ (opens[v] = 1 => live[v] = {})
        BY <1>d, <3>1
      <4> HIDE DEF v
      <4>2. live[v] = {} => live'[v] = {}
        BY <2>1, <4>1
      <4> QED
        BY <2>3, <3>1, <4>1, <4>2 DEF v
    <3>2. CASE IsTracked(t) /\ call'[c].victim = t
      BY <2>2, <2>3, <3>2
    <3> QED
      BY <1>4, <2>5, <3>1, <3>2 DEF Marked
  <2> QED
    BY <2>4, <2>5
<1>5. ASSUME NEW t \in Targets, Forgotten(t) PROVE Cancelled'
  BY <1>5 DEF Forgotten, Forget, OfEntry, HandsKept, limit, NoDrop
<1>6. ASSUME NEW t \in Targets, Rearmed(t) PROVE Cancelled'
  BY <1>6 DEF Rearmed, Rearm, OfEntry, HandsKept, NoDrop
<1>7. CASE Ticks
  BY <1>7 DEF Ticks, HandsKept, NoDrop
<1> QED
  BY <1>1, <1>2, <1>3, <1>4, <1>5, <1>6, <1>7 DEF Classified

LEMMA ApartStep == TabInv /\ Classified => Apart'
<1> SUFFICES ASSUME TabInv, Classified PROVE Apart'
  OBVIOUS
<1>t. Basics
  BY SoundBasics DEF TabInv
<1> USE <1>t DEF TabInv, Apart, Numbered, IsTracked, contexts, timers, Timer, Basics,
               ContextTypes, TableTypes
<1>1. ASSUME NEW c \in Calls, NEW t \in Targets, Opened(c, t) PROVE Apart'
  <2>1. \A d \in Calls \ {c}, u \in Targets :
          (InHand(d, u)' <=> InHand(d, u)) /\ call'[d].ctx = call[d].ctx
    BY <1>1, AloneHands DEF Opened
  <2> QED
    BY <1>1, <2>1 DEF Opened
<1>2. ASSUME NEW c \in Calls, NEW t \in Targets, GivenBack(c, t) PROVE Apart'
  <2>1. \A d \in Calls \ {c}, u \in Targets :
          (InHand(d, u)' <=> InHand(d, u)) /\ call'[d].ctx = call[d].ctx
    BY <1>2, AloneHands DEF GivenBack
  <2> QED
    BY <1>2, <2>1 DEF GivenBack, EmptyHanded, Cancel
<1>3. ASSUME NEW c \in Calls, NEW t \in Targets, Inserted(c, t) PROVE Apart'
  <2>1. \A d \in Calls \ {c}, u \in Targets :
          (InHand(d, u)' <=> InHand(d, u)) /\ call'[d].ctx = call[d].ctx
    BY <1>3, AloneHands DEF Inserted
  <2> QED
    BY <1>3, <2>1 DEF Inserted, EmptyHanded
<1>4. ASSUME NEW t \in Targets, Marked(t) PROVE Apart'
  BY <1>4 DEF Marked, Cancel, HandsKept
<1>5. ASSUME NEW t \in Targets, Forgotten(t) PROVE Apart'
  BY <1>5 DEF Forgotten, Forget, OfEntry, HandsKept, limit
<1>6. ASSUME NEW t \in Targets, Rearmed(t) PROVE Apart'
  BY <1>6 DEF Rearmed, Rearm, OfEntry, HandsKept
<1>7. CASE Ticks
  BY <1>7 DEF Ticks, HandsKept
<1> QED
  BY <1>1, <1>2, <1>3, <1>4, <1>5, <1>6, <1>7 DEF Classified

LEMMA OwnedStep == TabInv /\ Classified => Owned'
<1> SUFFICES ASSUME TabInv, Classified PROVE Owned'
  OBVIOUS
<1>t. Basics
  BY SoundBasics DEF TabInv
<1> USE <1>t DEF TabInv, Owned, Numbered, Cancelled, IsTracked, contexts, timers, Timer,
   Basics, ContextTypes, TableTypes
<1>1. ASSUME NEW c \in Calls, NEW t \in Targets, Opened(c, t) PROVE Owned'
  <2>1. \A d \in Calls \ {c}, u \in Targets :
          (InHand(d, u)' <=> InHand(d, u)) /\ call'[d].ctx = call[d].ctx
    BY <1>1, AloneHands DEF Opened
  <2> QED
    BY <1>1, <2>1 DEF Opened
<1>2. ASSUME NEW c \in Calls, NEW t \in Targets, GivenBack(c, t) PROVE Owned'
  <2>1. \A d \in Calls \ {c}, u \in Targets :
          (InHand(d, u)' <=> InHand(d, u)) /\ call'[d].ctx = call[d].ctx
    BY <1>2, AloneHands DEF GivenBack
  <2>2. \A u \in Targets : InHand(c, u) => u = t
    BY <1>2 DEF GivenBack, InHand
  <2>3. /\ UNCHANGED <<opens, entry>> /\ live' = [live EXCEPT ![t] = @ \ {call[c].ctx}]
        /\ InHand(c, t)
    BY <1>2 DEF GivenBack, Cancel
  <2>4. ASSUME opens[t] = 1 PROVE live'[t] = {}
    <3>1. call[c].ctx = 1
      BY <2>3, <2>4
    <3>2. \A x \in live[t] : x = 1
      BY <2>4
    <3> QED
      BY <2>3, <3>1, <3>2
  <2>5. ASSUME NEW u \in Targets, u # t, opens[u] = 1, live'[u] # {}
        PROVE  entry[u] = 1 \/ \E d \in Calls : InHand(d, u)'
    <3>1. live'[u] = live[u]
      BY <2>3, <2>5
    <3> QED
      BY <2>1, <2>2, <2>5, <3>1
  <2> QED
    BY <2>3, <2>4, <2>5
<1>3. ASSUME NEW c \in Calls, NEW t \in Targets, Inserted(c, t) PROVE Owned'
  <2>1. \A d \in Calls \ {c}, u \in Targets :
          (InHand(d, u)' <=> InHand(d, u)) /\ call'[d].ctx = call[d].ctx
    BY <1>3, AloneHands DEF Inserted
  <2>2. \A u \in Targets : InHand(c, u) => u = t
    BY <1>3 DEF Inserted, InHand
  <2> QED
    BY <1>3, <2>1, <2>2 DEF Inserted, EmptyHanded
<1>4. ASSUME NEW t \in Targets, Marked(t) PROVE Owned'
  BY <1>4 DEF Marked, Cancel, HandsKept
<1>5. ASSUME NEW t \in Targets, Forgotten(t) PROVE Owned'
  BY <1>5 DEF Forgotten, Forget, OfEntry, HandsKept, limit
<1>6. ASSUME NEW t \in Targets, Rearmed(t) PROVE Owned'
  BY <1>6 DEF Rearmed, Rearm, OfEntry, HandsKept
<1>7. CASE Ticks
  BY <1>7 DEF Ticks, HandsKept
<1> QED
  BY <1>1, <1>2, <1>3, <1>4, <1>5, <1>6, <1>7 DEF Classified

LEMMA FreshStep == TabInv /\ Classified => Fresh'
<1> SUFFICES ASSUME TabInv, Classified PROVE Fresh'
  OBVIOUS
<1>t. Basics
  BY SoundBasics DEF TabInv
<1> USE <1>t DEF TabInv, Fresh, FreshTab, Untimed, Numbered, Apart, IsTracked, contexts,
   timers, Timer, Basics, ContextTypes, TableTypes
<1>1. ASSUME NEW c \in Calls, NEW t \in Targets, Opened(c, t) PROVE Fresh'
  <2>1. \A d \in Calls \ {c}, u \in Targets :
          (InHand(d, u)' <=> InHand(d, u)) /\ call'[d].ctx = call[d].ctx
    BY <1>1, AloneHands DEF Opened
  <2> QED
    BY <1>1, <2>1 DEF Opened
<1>2. ASSUME NEW c \in Calls, NEW t \in Targets, GivenBack(c, t) PROVE Fresh'
  <2>1. \A d \in Calls \ {c}, u \in Targets :
          (InHand(d, u)' <=> InHand(d, u)) /\ call'[d].ctx = call[d].ctx
    BY <1>2, AloneHands DEF GivenBack
  <2> QED
    BY <1>2, <2>1 DEF GivenBack, EmptyHanded, Cancel
<1>3. ASSUME NEW c \in Calls, NEW t \in Targets, Inserted(c, t) PROVE Fresh'
  <2>1. \A d \in Calls \ {c}, u \in Targets :
          (InHand(d, u)' <=> InHand(d, u)) /\ call'[d].ctx = call[d].ctx
    BY <1>3, AloneHands DEF Inserted
  <2> QED
    BY <1>3, <2>1 DEF Inserted, EmptyHanded
<1>4. ASSUME NEW t \in Targets, Marked(t) PROVE Fresh'
  BY <1>4 DEF Marked, Cancel, HandsKept
<1>5. ASSUME NEW t \in Targets, Forgotten(t) PROVE Fresh'
  BY <1>5 DEF Forgotten, Forget, OfEntry, HandsKept, limit
<1>6. ASSUME NEW t \in Targets, Rearmed(t) PROVE Fresh'
  BY <1>6 DEF Rearmed, Rearm, OfEntry, HandsKept
<1>7. CASE Ticks
  BY <1>7 DEF Ticks, HandsKept
<1> QED
  BY <1>1, <1>2, <1>3, <1>4, <1>5, <1>6, <1>7 DEF Classified

LEMMA OneCloserStep == TabInv /\ Classified => OneCloser'
<1> SUFFICES ASSUME TabInv, Classified PROVE OneCloser'
  OBVIOUS
<1>t. Basics
  BY SoundBasics DEF TabInv
<1> USE <1>t DEF TabInv, OneCloser, Closers, Current, Fresh, FreshTab, Untimed,
   Numbered, IsTracked, contexts, timers, Timer, Basics, ContextTypes, TableTypes
<1>1. ASSUME NEW c \in Calls, NEW t \in Targets, Opened(c, t) PROVE OneCloser'
  <2>1. \A d \in Calls \ {c}, u \in Targets :
          (InHand(d, u)' <=> InHand(d, u)) /\ call'[d].ctx = call[d].ctx
    BY <1>1, AloneHands DEF Opened
  <2> QED
    BY <1>1, <2>1 DEF Opened
<1>2. ASSUME NEW c \in Calls, NEW t \in Targets, GivenBack(c, t) PROVE OneCloser'
  <2>1. \A d \in Calls \ {c}, u \in Targets :
          (InHand(d, u)' <=> InHand(d, u)) /\ call'[d].ctx = call[d].ctx
    BY <1>2, AloneHands DEF GivenBack
  <2> QED
    BY <1>2, <2>1 DEF GivenBack, EmptyHanded, Cancel
<1>3. ASSUME NEW c \in Calls, NEW t \in Targets, Inserted(c, t) PROVE OneCloser'
  <2>1. \A d \in Calls \ {c}, u \in Targets :
          (InHand(d, u)' <=> InHand(d, u)) /\ call'[d].ctx = call[d].ctx
    BY <1>3, AloneHands DEF Inserted
  <2> QED
    BY <1>3, <2>1 DEF Inserted, EmptyHanded
<1>4. ASSUME NEW t \in Targets, Marked(t) PROVE OneCloser'
  BY <1>4 DEF Marked, Cancel, HandsKept
<1>5. ASSUME NEW t \in Targets, Forgotten(t) PROVE OneCloser'
  BY <1>5 DEF Forgotten, Forget, OfEntry, HandsKept, limit
<1>6. ASSUME NEW t \in Targets, Rearmed(t) PROVE OneCloser'
  BY <1>6 DEF Rearmed, Rearm, OfEntry, HandsKept
<1>7. CASE Ticks
  BY <1>7 DEF Ticks, HandsKept
<1> QED
  BY <1>1, <1>2, <1>3, <1>4, <1>5, <1>6, <1>7 DEF Classified

(* A slot belongs to a click that still waits for the popups of its tab.   *)
SlotOK ==
  \A t \in Targets : slot[t] # None =>
    call[slot[t]].pc \in {"click", "clear"} /\ call[slot[t]].tab = t

(* The steps at which a click, or the adoption it leads to, has the popup  *)
(* in hand: as the one captured, as the one it is settling, or as the tab  *)
(* it is about to track.                                                   *)
Holds(c, p) ==
  \/ captured[c] = p /\ call[c].pc \in {"click", "clear"}
  \/ call[c].page = p /\ call[c].pc \in {"clear", "shut"}
  \/ /\ call[c].page = p /\ call[c].then = "insert"
     /\ call[c].pc \in {"adopt", "count", "choose", "attach", "insert"} \cup Evicting

Held == \A p \in claimed : \E c \in Calls : Holds(c, p)

LEMMA InitHeld == Init => SlotOK /\ Held
BY DEF Init, SlotOK, Held

LEMMA HeldInHand == Held => PopupsInHand
BY DEF Held, Holds, PopupsInHand, Evicting

(* Only a click's own steps move it away from its slot.                    *)
LEMMA SlotStep == Sound /\ SlotOK /\ [Next]_vars => SlotOK'
<1> SUFFICES ASSUME Sound, SlotOK, [Next]_vars PROVE SlotOK'
  OBVIOUS
<1>t. /\ slot \in [Targets -> Calls \cup {None}] /\ CallTypes
      /\ None \notin Calls
  BY TabManagerAssumption DEF Sound, ClickTypes, Calls
<1> USE <1>t DEF SlotOK
<1>1. ASSUME NEW c \in Calls, StartCreate(c) PROVE SlotOK'
  <2>1. slot' = slot
    BY <1>1 DEF StartCreate, clicks
  <2> QED
    BY <1>1, <2>1, StartCreateDoes DEF Becomes, At
<1>2. ASSUME NEW c \in Calls, StartClose(c) PROVE SlotOK'
  <2>1. slot' = slot
    BY <1>2 DEF StartClose, clicks
  <2> QED
    BY <1>2, <2>1, StartCloseDoes DEF Becomes, At
<1>3. ASSUME NEW c \in Calls, StartRequest(c) PROVE SlotOK'
  <2>1. slot' = slot
    BY <1>3 DEF StartRequest, clicks
  <2> QED
    BY <1>3, <2>1, StartRequestDoes DEF Becomes, At
<1>4. ASSUME NEW c \in Calls, Fire(c) PROVE SlotOK'
  <2>1. slot' = slot
    BY <1>4 DEF Fire, clicks
  <2> QED
    BY <1>4, <2>1, FireDoes DEF Becomes, At
<1>5. ASSUME NEW c \in Calls, Resolve(c) PROVE SlotOK'
  <2>1. slot' = slot
    BY <1>5 DEF Resolve, clicks
  <2> QED
    BY <1>5, <2>1, ResolveDoes DEF Becomes, At, Ends
<1>6. ASSUME NEW c \in Calls, Adopt(c) PROVE SlotOK'
  <2>1. slot' = slot
    BY <1>6 DEF Adopt
  <2> QED
    BY <1>6, <2>1, AdoptDoes DEF Becomes, At, Passes
<1>7. ASSUME NEW c \in Calls, Count(c) PROVE SlotOK'
  <2>1. slot' = slot
    BY <1>7 DEF Count, clicks
  <2> QED
    BY <1>7, <2>1, CountDoes DEF Becomes, At, Passes, Fails, Proceeds, Ends, After
<1>8. ASSUME NEW c \in Calls, Choose(c) PROVE SlotOK'
  <2>1. slot' = slot
    BY <1>8 DEF Choose, clicks
  <2> QED
    BY <1>8, <2>1, ChooseDoes DEF Becomes, At, Fails, Ends
<1>9. ASSUME NEW c \in Calls, Make(c) PROVE SlotOK'
  <2>1. slot' = slot
    BY <1>9 DEF Make, clicks
  <2> QED
    BY <1>9, <2>1, MakeDoes DEF Becomes, At, Fails, Ends
<1>10. ASSUME NEW c \in Calls, Setup(c) PROVE SlotOK'
  <2>1. slot' = slot
    BY <1>10 DEF Setup, clicks
  <2> QED
    BY <1>10, <2>1, SetupDoes DEF Becomes, At, Passes, Ends
<1>11. ASSUME NEW c \in Calls, Attach(c) PROVE SlotOK'
  <2>1. slot' = slot
    BY <1>11 DEF Attach, clicks
  <2> QED
    BY <1>11, <2>1, AttachDoes DEF Becomes, At
<1>12. ASSUME NEW c \in Calls, Insert(c) PROVE SlotOK'
  <2>1. slot' = slot
    BY <1>12 DEF Insert
  <2> QED
    BY <1>12, <2>1, InsertDoes DEF Becomes, At, Passes
<1>13. ASSUME NEW c \in Calls, Reread(c) PROVE SlotOK'
  <2>1. slot' = slot
    BY <1>13 DEF Reread, clicks
  <2> QED
    BY <1>13, <2>1, RereadDoes DEF Becomes, At, Ends
<1>14. ASSUME NEW c \in Calls, List(c) PROVE SlotOK'
  <2>1. slot' = slot
    BY <1>14 DEF List, clicks
  <2> QED
    BY <1>14, <2>1, ListDoes DEF Becomes, At, Passes, Fails, Ends
<1>15. ASSUME NEW c \in Calls, Lookup(c) PROVE SlotOK'
  <2>1. slot' = slot
    BY <1>15 DEF Lookup, clicks
  <2> QED
    BY <1>15, <2>1, LookupDoes DEF Becomes, At, Passes
<1>16. ASSUME NEW c \in Calls, Close(c) PROVE SlotOK'
  <2>1. slot' = slot
    BY <1>16 DEF Close, clicks
  <2> QED
    BY <1>16, <2>1, CloseDoes DEF Becomes, At, Passes, Fails, Ends
<1>17. ASSUME NEW c \in Calls, Find(c) PROVE SlotOK'
  <2>1. slot' = slot
    BY <1>17 DEF Find, clicks
  <2> QED
    BY <1>17, <2>1, FindDoes DEF Becomes, At, Passes, Ends, Proceeds, After
<1>18. ASSUME NEW c \in Calls, Drop(c) PROVE SlotOK'
  <2>1. slot' = slot
    BY <1>18 DEF Drop, clicks
  <2> QED
    BY <1>18, <2>1, DropDoes DEF Becomes, At, Ends, Proceeds, After
<1>19. ASSUME NEW c \in Calls, Use(c) PROVE SlotOK'
  <2>1. slot' = slot
    BY <1>19 DEF Use, clicks
  <2> QED
    BY <1>19, <2>1, UseDoes DEF Becomes, At, Ends
<1>20. ASSUME NEW c \in Calls, CancelAutoClose(c) PROVE SlotOK'
  <2>1. slot' = slot
    BY <1>20 DEF CancelAutoClose, clicks
  <2> QED
    BY <1>20, <2>1, CancelAutoCloseDoes DEF Becomes, At, Ends
<1>21. ASSUME NEW c \in Calls, ScheduleAutoClose(c) PROVE SlotOK'
  <2>1. slot' = slot
    BY <1>21 DEF ScheduleAutoClose, clicks
  <2> QED
    BY <1>21, <2>1, ScheduleAutoCloseDoes DEF Becomes, At, Ends
<1>22. ASSUME NEW c \in Calls, MarkPendingClick(c) PROVE SlotOK'
  <2> DEFINE t == call[c].tab
  <2>1. slot' = [slot EXCEPT ![t] = c] /\ t \in Targets
    BY <1>22 DEF MarkPendingClick, At, Sound, CallsOK, CallOK
  <2>2. /\ call[c].pc = "use" /\ call'[c].pc = "click" /\ call'[c].tab = t
        /\ \A d \in Calls \ {c} : call'[d] = call[d]
    BY <1>22, MarkPendingClickDoes DEF Becomes, At
  <2> HIDE DEF t
  <2> QED
    BY <2>1, <2>2
<1>23. ASSUME NEW c \in Calls, TakePopup(c) PROVE SlotOK'
  <2>1. slot' = slot
    BY <1>23 DEF TakePopup
  <2> QED
    BY <1>23, <2>1, TakePopupDoes DEF Becomes, At
<1>24. ASSUME NEW c \in Calls, ClearAfterPopup(c) PROVE SlotOK'
  <2> DEFINE t == call[c].tab
  <2>1. slot' = (IF slot[t] = c THEN [slot EXCEPT ![t] = None] ELSE slot) /\ t \in Targets
    BY <1>24 DEF ClearAfterPopup, ClearPendingClick, Cleared, At, Sound, CallsOK, CallOK
  <2>2. \A d \in Calls \ {c} : call'[d] = call[d]
    BY <1>24, ClearAfterPopupDoes DEF Becomes, At
  <2> QED
    BY <2>1, <2>2
<1>25. ASSUME NEW c \in Calls, GiveUp(c) PROVE SlotOK'
  <2> DEFINE t == call[c].tab
  <2>1. slot' = (IF slot[t] = c THEN [slot EXCEPT ![t] = None] ELSE slot) /\ t \in Targets
    BY <1>25 DEF GiveUp, ClearPendingClick, Cleared, At, Sound, CallsOK, CallOK
  <2>2. \A d \in Calls \ {c} : call'[d] = call[d]
    BY <1>25, GiveUpDoes DEF Becomes, At, Ends, Creates
  <2> QED
    BY <2>1, <2>2
<1>26. ASSUME NEW c \in Calls, Shut(c) PROVE SlotOK'
  <2>1. slot' = slot
    BY <1>26 DEF Shut
  <2> QED
    BY <1>26, <2>1, ShutDoes DEF Becomes, At, Ends, Creates
<1>27. CASE UNCHANGED <<slot, call>>
  BY <1>27
<1> QED
  BY <1>1, <1>2, <1>3, <1>4, <1>5, <1>6, <1>7, <1>8, <1>9, <1>10, <1>11, <1>12, <1>13,
     <1>14, <1>15, <1>16, <1>17, <1>18, <1>19, <1>20, <1>21, <1>22, <1>23, <1>24, <1>25,
     <1>26, <1>27 DEF vars, clicks, Next, Start, Step, Purge, Popup, PurgeFind,
     PurgeDrop, PageDies, PopupOpens, ClaimPendingPopup, GuardPopup, Expire, FireStale

(* A popup leaves claimed in the step in which its holder lets it go.      *)
LEMMA HeldStep == Sound /\ SlotOK /\ Held /\ [Next]_vars => Held'
<1> SUFFICES ASSUME Sound, SlotOK, Held, [Next]_vars PROVE Held'
  OBVIOUS
<1>t. /\ captured \in [Calls -> Targets \cup {None}] /\ CallTypes
      /\ claimed \subseteq Targets /\ None \notin Targets
  BY TabManagerAssumption DEF Sound, ClickTypes, Targets
<1>k. ASSUME NEW c \in Calls,
             \A d \in Calls \ {c} : call'[d] = call[d] /\ captured'[d] = captured[d],
             claimed' \subseteq claimed, \A p \in claimed' : Holds(c, p) => Holds(c, p)'
      PROVE  Held'
  BY <1>k DEF Held, Holds
<1> USE <1>t DEF Holds, Evicting
<1>1. ASSUME NEW c \in Calls, StartCreate(c) PROVE Held'
  <2>1. UNCHANGED <<captured, claimed>>
    BY <1>1 DEF StartCreate, clicks
  <2> QED
    BY <1>k, <1>1, <2>1, StartCreateDoes DEF Becomes, At
<1>2. ASSUME NEW c \in Calls, StartClose(c) PROVE Held'
  <2>1. UNCHANGED <<captured, claimed>>
    BY <1>2 DEF StartClose, clicks
  <2> QED
    BY <1>k, <1>2, <2>1, StartCloseDoes DEF Becomes, At
<1>3. ASSUME NEW c \in Calls, StartRequest(c) PROVE Held'
  <2>1. UNCHANGED <<captured, claimed>>
    BY <1>3 DEF StartRequest, clicks
  <2> QED
    BY <1>k, <1>3, <2>1, StartRequestDoes DEF Becomes, At
<1>4. ASSUME NEW c \in Calls, Fire(c) PROVE Held'
  <2>1. UNCHANGED <<captured, claimed>>
    BY <1>4 DEF Fire, clicks
  <2> QED
    BY <1>k, <1>4, <2>1, FireDoes DEF Becomes, At
<1>5. ASSUME NEW c \in Calls, Resolve(c) PROVE Held'
  <2>1. UNCHANGED <<captured, claimed>>
    BY <1>5 DEF Resolve, clicks
  <2> QED
    BY <1>k, <1>5, <2>1, ResolveDoes DEF Becomes, At, Ends
<1>6. ASSUME NEW c \in Calls, Adopt(c) PROVE Held'
  <2>1. captured' = captured /\ claimed' \subseteq claimed
    BY <1>6 DEF Adopt
  <2>2. call'[c].pc = "resolve" /\ call[c].then = "insert" => call[c].page \notin claimed'
    BY <1>6, AdoptDoes, GotoIs DEF Adopt, Becomes, Pcs
  <2> QED
    BY <1>k, <1>6, <2>1, <2>2, AdoptDoes DEF Becomes, At, Passes
<1>7. ASSUME NEW c \in Calls, Count(c) PROVE Held'
  <2>1. UNCHANGED <<captured, claimed>>
    BY <1>7 DEF Count, clicks
  <2> QED
    BY <1>k, <1>7, <2>1, CountDoes DEF Becomes, At, Passes, Fails, Proceeds, Ends, After
<1>8. ASSUME NEW c \in Calls, Choose(c) PROVE Held'
  <2>1. UNCHANGED <<captured, claimed>>
    BY <1>8 DEF Choose, clicks
  <2> QED
    BY <1>k, <1>8, <2>1, ChooseDoes DEF Becomes, At, Fails, Ends
<1>9. ASSUME NEW c \in Calls, Make(c) PROVE Held'
  <2>1. UNCHANGED <<captured, claimed>>
    BY <1>9 DEF Make, clicks
  <2> QED
    BY <1>k, <1>9, <2>1, MakeDoes DEF Becomes, At, Fails, Ends
<1>10. ASSUME NEW c \in Calls, Setup(c) PROVE Held'
  <2>1. UNCHANGED <<captured, claimed>>
    BY <1>10 DEF Setup, clicks
  <2> QED
    BY <1>k, <1>10, <2>1, SetupDoes DEF Becomes, At, Passes, Ends
<1>11. ASSUME NEW c \in Calls, Attach(c) PROVE Held'
  <2>1. UNCHANGED <<captured, claimed>>
    BY <1>11 DEF Attach, clicks
  <2> QED
    BY <1>k, <1>11, <2>1, AttachDoes DEF Becomes, At
<1>12. ASSUME NEW c \in Calls, Insert(c) PROVE Held'
  <2>1. captured' = captured /\ claimed' = claimed \ {call[c].page}
    BY <1>12 DEF Insert
  <2> QED
    BY <1>k, <1>12, <2>1, InsertDoes DEF Becomes, At, Passes
<1>13. ASSUME NEW c \in Calls, Reread(c) PROVE Held'
  <2>1. UNCHANGED <<captured, claimed>>
    BY <1>13 DEF Reread, clicks
  <2> QED
    BY <1>k, <1>13, <2>1, RereadDoes DEF Becomes, At, Ends
<1>14. ASSUME NEW c \in Calls, List(c) PROVE Held'
  <2>1. UNCHANGED <<captured, claimed>>
    BY <1>14 DEF List, clicks
  <2> QED
    BY <1>k, <1>14, <2>1, ListDoes DEF Becomes, At, Passes, Fails, Ends
<1>15. ASSUME NEW c \in Calls, Lookup(c) PROVE Held'
  <2>1. UNCHANGED <<captured, claimed>>
    BY <1>15 DEF Lookup, clicks
  <2> QED
    BY <1>k, <1>15, <2>1, LookupDoes DEF Becomes, At, Passes
<1>16. ASSUME NEW c \in Calls, Close(c) PROVE Held'
  <2>1. UNCHANGED <<captured, claimed>>
    BY <1>16 DEF Close, clicks
  <2> QED
    BY <1>k, <1>16, <2>1, CloseDoes DEF Becomes, At, Passes, Fails, Ends
<1>17. ASSUME NEW c \in Calls, Find(c) PROVE Held'
  <2>1. UNCHANGED <<captured, claimed>>
    BY <1>17 DEF Find, clicks
  <2> QED
    BY <1>k, <1>17, <2>1, FindDoes DEF Becomes, At, Passes, Ends, Proceeds, After
<1>18. ASSUME NEW c \in Calls, Drop(c) PROVE Held'
  <2>1. UNCHANGED <<captured, claimed>>
    BY <1>18 DEF Drop, clicks
  <2> QED
    BY <1>k, <1>18, <2>1, DropDoes DEF Becomes, At, Ends, Proceeds, After
<1>19. ASSUME NEW c \in Calls, Use(c) PROVE Held'
  <2>1. UNCHANGED <<captured, claimed>>
    BY <1>19 DEF Use, clicks
  <2> QED
    BY <1>k, <1>19, <2>1, UseDoes DEF Becomes, At, Ends
<1>20. ASSUME NEW c \in Calls, CancelAutoClose(c) PROVE Held'
  <2>1. UNCHANGED <<captured, claimed>>
    BY <1>20 DEF CancelAutoClose, clicks
  <2> QED
    BY <1>k, <1>20, <2>1, CancelAutoCloseDoes DEF Becomes, At, Ends
<1>21. ASSUME NEW c \in Calls, ScheduleAutoClose(c) PROVE Held'
  <2>1. UNCHANGED <<captured, claimed>>
    BY <1>21 DEF ScheduleAutoClose, clicks
  <2> QED
    BY <1>k, <1>21, <2>1, ScheduleAutoCloseDoes DEF Becomes, At, Ends
<1>22. ASSUME NEW c \in Calls, MarkPendingClick(c) PROVE Held'
  <2>1. UNCHANGED <<captured, claimed>>
    BY <1>22 DEF MarkPendingClick
  <2> QED
    BY <1>k, <1>22, <2>1, MarkPendingClickDoes DEF Becomes, At
<1>23. ASSUME NEW c \in Calls, TakePopup(c) PROVE Held'
  <2>1. captured' = [captured EXCEPT ![c] = None] /\ claimed' = claimed
    BY <1>23 DEF TakePopup
  <2>2. call[c].pc = "click"
    BY <1>23, TakePopupDoes DEF At
  <2> QED
    BY <1>k, <1>23, <2>1, TakePopupDoes DEF Becomes, At
<1>24. ASSUME NEW c \in Calls, ClearAfterPopup(c) PROVE Held'
  <2>1. captured' = [captured EXCEPT ![c] = None] \/ captured' = captured
    BY <1>24 DEF ClearAfterPopup, ClearPendingClick
  <2>2. claimed' = claimed \ {captured[c]}
    BY <1>24 DEF ClearAfterPopup
  <2> QED
    BY <1>k, <1>24, <2>1, <2>2, ClearAfterPopupDoes DEF Becomes, At
<1>25. ASSUME NEW c \in Calls, GiveUp(c) PROVE Held'
  <2>1. captured' = [captured EXCEPT ![c] = None] \/ captured' = captured
    BY <1>25 DEF GiveUp, ClearPendingClick
  <2>2. claimed' \subseteq claimed
    BY <1>25 DEF GiveUp
  <2>3. \/ claimed' = claimed \ {captured[c]}
        \/ call'[c].pc = "shut" /\ call'[c].page = captured[c]
    <3>1. CASE captured[c] # None
      <4>1. captured[c] \in Targets
        BY <3>1 DEF ClickTypes
      <4> QED
        BY <1>25, <4>1, GivesUpIs DEF GiveUp, Becomes
    <3>2. CASE captured[c] = None
      BY <1>25, <3>2 DEF GiveUp
    <3> QED
      BY <3>1, <3>2
  <2>4. call[c].pc = "click" /\ \A d \in Calls \ {c} : call'[d] = call[d]
    BY <1>25, GiveUpDoes DEF Becomes, At, Ends, Creates
  <2> QED
    BY <1>k, <2>1, <2>2, <2>3, <2>4
<1>26. ASSUME NEW c \in Calls, Shut(c) PROVE Held'
  <2>1. captured' = captured /\ claimed' = claimed \ {call[c].page}
    BY <1>26 DEF Shut
  <2> QED
    BY <1>k, <1>26, <2>1, ShutDoes DEF Becomes, At, Ends, Creates
<1>27. ASSUME NEW p \in Targets, ClaimPendingPopup(p) PROVE Held'
  <2> DEFINE c == slot[opener[p]]
  <2>1. opener[p] \in Targets /\ c \in Calls
    BY <1>27 DEF ClaimPendingPopup, Awaited, Sound, BrowserTypes, ClickTypes
  <2>2. call[c].pc \in {"click", "clear"} /\ captured[c] = None
    BY <1>27, <2>1 DEF ClaimPendingPopup, Awaited, SlotOK
  <2>3. /\ captured' = [captured EXCEPT ![c] = p] /\ claimed' = claimed \cup {p}
        /\ call' = call
    BY <1>27 DEF ClaimPendingPopup
  <2> HIDE DEF c
  <2> QED
    BY <2>1, <2>2, <2>3 DEF Held
<1>28. CASE UNCHANGED <<captured, claimed, call>>
  BY <1>28 DEF Held
<1> QED
  BY <1>1, <1>2, <1>3, <1>4, <1>5, <1>6, <1>7, <1>8, <1>9, <1>10, <1>11, <1>12, <1>13,
     <1>14, <1>15, <1>16, <1>17, <1>18, <1>19, <1>20, <1>21, <1>22, <1>23, <1>24, <1>25,
     <1>26, <1>27, <1>28 DEF vars, clicks, Next, Start, Step, Purge, Popup, PurgeFind,
     PurgeDrop, PageDies, PopupOpens, GuardPopup, Expire, FireStale

LEMMA InitOne == Init => TabInv
BY InitSound, InitTabInv DEF TabInv

LEMMA TabInvStep == TabInv /\ [Next]_vars => TabInv'
BY SoundStep, ClassifiedStep, NumberedStep, CancelledStep, ApartStep, OwnedStep,
   FreshStep, OneCloserStep DEF TabInv

LEMMA OwnedContexts == Owned => ContextsOwned
BY DEF Owned, ContextsOwned, InHand

LEMMA OneCloserOneTimer == TabInv => OneIdleTimer
<1> SUFFICES ASSUME TabInv, NEW t \in Targets, opens[t] = 1
             PROVE  Cardinality(Closers(t)) <= 1 /\ (Closers(t) # {} => IsTracked(t))
  BY DEF OneIdleTimer, Closers
<1>1. \A a, b \in Closers(t) : a = b
  BY DEF TabInv, OneCloser
<1>2. CASE Closers(t) = {}
  BY <1>2, FS_EmptySet
<1>3. CASE Closers(t) # {}
  <2>1. PICK a \in Closers(t) : TRUE
    BY <1>3
  <2>2. Closers(t) = {a}
    BY <1>1, <2>1
  <2>3. Cardinality(Closers(t)) <= 1
    BY <2>2, FS_Singleton
  <2>4. IsTracked(t)
    BY <2>1 DEF Closers, Current, IsTracked, TabInv, Fresh, FreshTab
  <2> QED
    BY <2>3, <2>4
<1> QED
  BY <1>2, <1>3

(* Every field of the tab manager, of its calls and of the browser keeps   *)
(* the type the code gives it, and a call that acts on a tab has one in    *)
(* hand.                                                                   *)
THEOREM TypeCorrect == Spec => []TypeOK
<1>1. Sound => TypeOK
  BY Types DEF Sound
<1>2. Init => Sound
  BY InitSound
<1>3. Sound /\ [Next]_vars => Sound'
  BY SoundStep
<1> QED
  BY <1>1, <1>2, <1>3, PTL DEF Spec

(* The inductive invariant of contexts and timers: contexts are numbered   *)
(* per page, a call that waits to remove an entry has cancelled its        *)
(* context, and a page that one call tracked has the timers of that one    *)
(* entry only.                                                             *)
THEOREM TabInvariance == Spec => []TabInv
BY InitOne, TabInvStep, PTL DEF Spec

(* CreateTab, TabContext, CloseTab and the purge leave no context of a     *)
(* page that one call tracked without the entry, or the call about to      *)
(* insert it, that can cancel it.                                          *)
THEOREM Owners == Spec => []ContextsOwned
<1>1. TabInv => ContextsOwned
  BY OwnedContexts DEF TabInv
<1> QED
  BY <1>1, TabInvariance, PTL

(* ScheduleAutoClose, CancelAutoClose and the removal of an entry leave a  *)
(* page that one call tracked with one timer at most that can close it,    *)
(* that of its entry.                                                      *)
THEOREM OneTimer == Spec => []OneIdleTimer
BY OneCloserOneTimer, TabInvariance, PTL

(* However CreateTab, the adoption of popups and evictions interleave,     *)
(* the tabs above MaxTabs are at most the insertions that no count of      *)
(* their own covered.                                                      *)
THEOREM Excess == Spec => []ExcessCovered
<1> DEFINE LimitInv == Sound /\ ExcessCovered /\ Covering
<1>1. Init => LimitInv
  <2> SUFFICES ASSUME Init PROVE ExcessCovered /\ Covering
    BY InitSound
  <2>1. Tracked = {} /\ excess = 0 /\ covered = {}
    BY DEF Init, Tracked, IsTracked
  <2>2. config.maxTabs \in Nat
    BY InitSound, MaxTabs
  <2> QED
    BY <2>1, <2>2, FS_EmptySet DEF ExcessCovered, Covering
<1>2. LimitInv /\ [Next]_vars => LimitInv'
  BY SoundStep, ExcessStep, CoveringStep
<1>3. LimitInv => ExcessCovered
  OBVIOUS
<1> HIDE DEF LimitInv
<1> QED
  BY <1>1, <1>2, <1>3, PTL DEF Spec

(* A popup kept from the guard stays with a click until the click tracks   *)
(* it, tries to close it or gives it up.                                   *)
THEOREM Popups == Spec => []PopupsInHand
<1> DEFINE PopupInv == Sound /\ SlotOK /\ Held
<1>1. Init => PopupInv
  BY InitSound, InitHeld
<1>2. PopupInv /\ [Next]_vars => PopupInv'
  BY SoundStep, SlotStep, HeldStep
<1>3. PopupInv => PopupsInHand
  BY HeldInHand
<1> HIDE DEF PopupInv
<1> QED
  BY <1>1, <1>2, <1>3, PTL DEF Spec
==================================================================================
