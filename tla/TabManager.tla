------------------------------- MODULE TabManager -------------------------------
(***************************************************************************)
(* The tab manager of one bridge: the table of tracked tabs, its limit and *)
(* eviction, adoption of pages it did not create, closing, the idle        *)
(* timers, the purge after the browser reports a page gone, and the popups *)
(* a click waits for.  A call is the goroutine of one HTTP request or of   *)
(* one expired timer; it runs the steps between which the code holds no    *)
(* lock or waits for the browser.  A tab's id is the id of its page.       *)
(***************************************************************************)
EXTENDS Naturals, FiniteSets

CONSTANTS
  NumCalls,     \* bound: requests and timer expiries of a behaviour
  NumTargets,   \* bound: pages opened besides the one the browser starts with
  Configs,      \* the configurations the bridge may have, each with its bounds
  None

Calls == 1..NumCalls

(* Page 0 is the blank page the browser opens; the manager does not track it. *)
Targets == 0..NumTargets

ASSUME TabManagerAssumption ==
  /\ NumCalls \in Nat /\ NumTargets \in Nat
  /\ Configs \subseteq [maxTabs : Nat \ {0}, evicts : BOOLEAN, closeIdle : BOOLEAN,
                         guarded : BOOLEAN, calls : SUBSET Calls, pages : SUBSET Targets,
                         mortal : SUBSET Targets]
  /\ None \notin Nat

VARIABLES
  config,    \* maxTabs: MaxTabs; evicts: TabEvictionPolicy is not "reject"; closeIdle:
             \* TabLifecyclePolicy is "close_idle"; guarded: the popup guard is active; and
             \* bounds: the calls that begin, the pages opened, those that may go away
  page,      \* the browser's pages
  opener,    \* the opener of a popup the guard has not heard of yet
  purging,   \* the purge TargetDestroyed starts for a page
  opens,     \* how many contexts were opened for each page
  live,      \* those of them that were not cancelled
  entry,     \* tm.tabs: the context of each tracked tab, 0 for a tab that is not tracked
  gen,       \* TabEntry.autoCloseGen
  armed,     \* the timers that run: tab, generation and the context of their entry
  fired,     \* the expired timers whose callback has not run
  slot,      \* tm.pendingClicks: the click that waits for a page's popups
  captured,  \* pendingClickSlot.captured, of each click
  claimed,   \* popups kept from the guard for a click that has not settled them
  call,      \* the calls
  covered,   \* calls that have counted the tabs since the last insertion
  excess     \* insertions no count of their own covered

vars == <<config, page, opener, purging, opens, live, entry, gen, armed, fired,
          slot, captured, claimed, call, covered, excess>>

browser  == <<page, opener, purging>>
contexts == <<opens, live>>
timers   == <<gen, armed, fired>>
clicks   == <<slot, captured, claimed>>
limit    == <<covered, excess>>
table    == <<entry, timers, limit>>

Idle == [pc |-> "unborn", tab |-> None, page |-> None, victim |-> None,
         ctx |-> 0, seen |-> FALSE, then |-> "done"]

Init ==
  /\ config \in Configs
  /\ page = [t \in Targets |-> IF t = 0 THEN "open" ELSE "none"]
  /\ opener = [t \in Targets |-> None]
  /\ purging = [t \in Targets |-> "no"]
  /\ opens = [t \in Targets |-> 0]
  /\ live = [t \in Targets |-> {}]
  /\ entry = [t \in Targets |-> 0]
  /\ gen = [t \in Targets |-> 0]
  /\ armed = {} /\ fired = {}
  /\ slot = [t \in Targets |-> None]
  /\ captured = [c \in Calls |-> None]
  /\ claimed = {}
  /\ call = [c \in Calls |-> Idle]
  /\ covered = {} /\ excess = 0

IsTracked(t) == entry[t] # 0

Tracked == {t \in Targets : IsTracked(t)}

Open == {t \in Targets : page[t] = "open"}

(* The browser gives out a page id once.                                   *)
NewTarget(t) ==
  t \in config.pages /\ page[t] = "none" /\ \A u \in Targets : page[u] = "none" => t <= u

At(c, pc) == call[c].pc = pc

Goto(c, pc) == call' = [call EXCEPT ![c].pc = pc]

(* The call goes on with nothing but the tab of its request in hand.       *)
Return(c, pc) == call' = [call EXCEPT ![c] = [Idle EXCEPT !.pc = pc, !.tab = call[c].tab]]

Over(c) == call' = [call EXCEPT ![c] = [Idle EXCEPT !.pc = "done"]]

(* A request that used a tab ends with its deferred ScheduleAutoClose; the *)
(* others just return.                                                     *)
End(c) == IF call[c].tab = None THEN Over(c) ELSE Return(c, "end")

(* The limit check or its eviction failed: a popup that was to be adopted  *)
(* is closed instead.                                                      *)
Fail(c) ==
  IF call[c].then = "insert"
    THEN call' = [call EXCEPT ![c] = [@ EXCEPT !.pc = "shut", !.then = "done", !.victim = None,
                                               !.seen = FALSE]]
    ELSE End(c)

Begin(c, new) ==
  /\ At(c, "unborn") /\ c \in config.calls
  /\ \A d \in Calls : d < c => ~At(d, "unborn")
  /\ call' = [call EXCEPT ![c] = new]

Creating == [Idle EXCEPT !.pc = "count", !.then = "make"]

Closing(t) == [Idle EXCEPT !.pc = "list", !.victim = t]

Requesting(t) == [Idle EXCEPT !.pc = "resolve", !.tab = t, !.page = t]

StartCreate(c) ==
  /\ Begin(c, Creating)
  /\ UNCHANGED <<config, browser, contexts, table, clicks>>

StartClose(c) ==
  /\ \E t \in Targets : page[t] # "none" /\ Begin(c, Closing(t))
  /\ UNCHANGED <<config, browser, contexts, table, clicks>>

StartRequest(c) ==
  /\ \E t \in Targets : page[t] # "none" /\ Begin(c, Requesting(t))
  /\ UNCHANGED <<config, browser, contexts, table, clicks>>

(* The tab is the request's own, or the popup its click is about to focus. *)
Own(c) == call[c].page = call[c].tab

Found(c) == IF Own(c) THEN Return(c, "use") ELSE Return(c, "end")

NotFound(c) == IF Own(c) THEN Over(c) ELSE Return(c, "end")

(* TabContext: a tracked tab is used, an untracked page is adopted; of     *)
(* another id, or when the browser does not list its pages, the call fails.*)
Resolve(c) ==
  LET t == call[c].page IN
  /\ At(c, "resolve")
  /\ \/ IsTracked(t) /\ Found(c)
     \/ /\ ~IsTracked(t) /\ page[t] = "open"
        /\ call' = [call EXCEPT ![c].pc = "adopt", ![c].then = "reread"]
     \/ ~IsTracked(t) /\ NotFound(c)
  /\ UNCHANGED <<config, browser, contexts, table, clicks>>

(* adoptExistingTarget looks the tab up again; only a popup is subject to  *)
(* the limit.                                                              *)
Adopt(c) ==
  LET t == call[c].page
      popup == call[c].then = "insert" IN
  /\ At(c, "adopt")
  /\ \/ /\ IsTracked(t)
        /\ Goto(c, IF popup THEN "resolve" ELSE "reread")
        /\ claimed' = claimed \ {t}
     \/ /\ ~IsTracked(t)
        /\ Goto(c, IF popup THEN "count" ELSE "attach")
        /\ UNCHANGED claimed
  /\ UNCHANGED <<config, browser, contexts, table, slot, captured>>

AtLimitSlip == Cardinality(Tracked) > config.maxTabs

AtLimit == Cardinality(Tracked) >= config.maxTabs

(* The check passed, or the eviction made room.                            *)
Proceed(c) ==
  call' = [call EXCEPT ![c] = [@ EXCEPT !.pc = IF call[c].then = "insert" THEN "attach" ELSE "make",
                                        !.victim = None, !.seen = FALSE]]

(* The limit check of CreateTab and enforceAdoptTabLimit.                  *)
Count(c) ==
  /\ At(c, "count")
  /\ \/ ~AtLimit /\ Proceed(c)
     \/ AtLimit /\ config.evicts /\ Goto(c, "choose")
     \/ AtLimit /\ ~config.evicts /\ Fail(c)
  /\ covered' = covered \cup {c}
  /\ UNCHANGED <<config, browser, contexts, entry, timers, excess, clicks>>

(* closeOldestTab and closeLRUTab: the order of the times is abstracted.   *)
Choose(c) ==
  /\ At(c, "choose")
  /\ \/ \E v \in Tracked : call' = [call EXCEPT ![c].pc = "list", ![c].victim = v]
     \/ Tracked = {} /\ Fail(c)
  /\ UNCHANGED <<config, browser, contexts, table, clicks>>

NewContext(c, t, pc) ==
  /\ opens' = [opens EXCEPT ![t] = @ + 1]
  /\ live' = [live EXCEPT ![t] = @ \cup {opens[t] + 1}]
  /\ call' = [call EXCEPT ![c].pc = pc, ![c].page = t, ![c].ctx = opens[t] + 1]

Cancel(t, x) == live' = [live EXCEPT ![t] = @ \ {x}]

(* The browser reports a page gone to the crash monitor, which starts a    *)
(* goroutine that purges the tab.                                          *)
Gone(t) ==
  /\ page[t] = "open"
  /\ page' = [page EXCEPT ![t] = "gone"]
  /\ purging' = [purging EXCEPT ![t] = "due"]

(* target.CloseTarget: an error when the page is gone already or the       *)
(* browser is late.                                                        *)
CloseTarget(t) == Gone(t) /\ UNCHANGED opener

CloseTargetFails == UNCHANGED browser

(* CreateTab creates the page and its context, sets it up and navigates;   *)
(* if that fails it takes both back.                                       *)
Make(c) ==
  /\ At(c, "make")
  /\ \/ /\ \E t \in Targets : /\ NewTarget(t)
                              /\ page' = [page EXCEPT ![t] = "open"]
                              /\ NewContext(c, t, "setup")
        /\ UNCHANGED <<opener, purging>>
     \/ Fail(c) /\ UNCHANGED <<browser, contexts>>
  /\ UNCHANGED <<config, table, clicks>>

Setup(c) ==
  /\ At(c, "setup")
  /\ \/ Goto(c, "insert") /\ UNCHANGED <<browser, contexts>>
     \/ /\ Cancel(call[c].page, call[c].ctx) /\ UNCHANGED opens
        /\ CloseTarget(call[c].page) \/ CloseTargetFails
        /\ End(c)
  /\ UNCHANGED <<config, table, clicks>>

Attach(c) ==
  /\ At(c, "attach")
  /\ NewContext(c, call[c].page, "insert")
  /\ UNCHANGED <<config, browser, table, clicks>>

InsertSlip(c) ==
  LET t == call[c].page IN
  /\ At(c, "insert")
  /\ entry' = [entry EXCEPT ![t] = IF page[t] = "open" THEN call[c].ctx ELSE @]
  /\ gen' = [gen EXCEPT ![t] = 0]
  /\ claimed' = claimed \ {t}
  /\ covered' = {}
  /\ excess' = IF IsTracked(t) \/ c \in covered THEN excess ELSE excess + 1
  /\ IF call[c].tab = None THEN Over(c)
     ELSE Goto(c, IF call[c].then = "reread" THEN "reread" ELSE "resolve")
  /\ UNCHANGED <<config, browser, contexts, armed, fired, slot, captured>>

(* After it, CreateTab returns to its handler, TabContext reads the entry  *)
(* again, and a popup or its stand-in is focused.                          *)
Insert(c) ==
  LET t == call[c].page IN
  /\ At(c, "insert")
  /\ entry' = [entry EXCEPT ![t] = call[c].ctx]
  /\ gen' = [gen EXCEPT ![t] = 0]
  /\ claimed' = claimed \ {t}
  /\ covered' = {}
  /\ excess' = IF IsTracked(t) \/ c \in covered THEN excess ELSE excess + 1
  /\ IF call[c].tab = None THEN Over(c)
     ELSE Goto(c, IF call[c].then = "reread" THEN "reread" ELSE "resolve")
  /\ UNCHANGED <<config, browser, contexts, armed, fired, slot, captured>>

Reread(c) ==
  /\ At(c, "reread")
  /\ IF IsTracked(call[c].page) THEN Found(c) ELSE NotFound(c)
  /\ UNCHANGED <<config, browser, contexts, table, clicks>>

(* CloseTab: the guard of the last page, the lookup, which cancels the     *)
(* entry's context, and the browser's answer.                              *)
List(c) ==
  /\ At(c, "list")
  /\ \/ Cardinality(Open) > 1 /\ Goto(c, "lookup")
     \/ Fail(c)
  /\ UNCHANGED <<config, browser, contexts, table, clicks>>

Lookup(c) ==
  LET t == call[c].victim IN
  /\ At(c, "lookup")
  /\ Cancel(t, entry[t])
  /\ call' = [call EXCEPT ![c].pc = "close", ![c].seen = IsTracked(t)]
  /\ UNCHANGED <<config, browser, opens, table, clicks>>

Close(c) ==
  /\ At(c, "close")
  /\ \/ CloseTarget(call[c].victim) /\ Goto(c, "find")
     \/ /\ CloseTargetFails
        /\ IF call[c].seen THEN Goto(c, "find") ELSE Fail(c)
  /\ UNCHANGED <<config, contexts, table, clicks>>

Closed(c) == IF call[c].then = "done" THEN Over(c) ELSE Proceed(c)

(* purgeTrackedTabState: the lookup, which cancels the context it finds,   *)
(* and later the removal of whatever entry the tab has by then.            *)
Find(c) ==
  LET t == call[c].victim IN
  /\ At(c, "find")
  /\ Cancel(t, entry[t])
  /\ IF IsTracked(t) THEN Goto(c, "drop") ELSE Closed(c)
  /\ UNCHANGED <<config, browser, opens, table, clicks>>

OfEntry(t) == {a \in armed : a.tab = t /\ a.of = entry[t]}

Forget(t) ==
  /\ entry' = [entry EXCEPT ![t] = 0]
  /\ gen' = [gen EXCEPT ![t] = 0]
  /\ armed' = armed \ OfEntry(t)
  /\ UNCHANGED <<fired, limit>>

Drop(c) ==
  /\ At(c, "drop")
  /\ Forget(call[c].victim)
  /\ Closed(c)
  /\ UNCHANGED <<config, browser, contexts, clicks>>

PurgeFind(t) ==
  /\ purging[t] = "due"
  /\ Cancel(t, entry[t])
  /\ purging' = [purging EXCEPT ![t] = IF IsTracked(t) THEN "found" ELSE "done"]
  /\ UNCHANGED <<config, page, opener, opens, table, clicks, call>>

PurgeDrop(t) ==
  /\ purging[t] = "found"
  /\ Forget(t)
  /\ purging' = [purging EXCEPT ![t] = "done"]
  /\ UNCHANGED <<config, page, opener, contexts, clicks, call>>

(* A page closed by its user, by a script or by a crash.                   *)
PageDies(t) ==
  /\ t \in config.mortal /\ Gone(t)
  /\ UNCHANGED <<config, opener, contexts, table, clicks, call>>

(* A read or an action uses the tab and ends with ScheduleAutoClose; a     *)
(* navigation calls CancelAutoClose before it uses it.                     *)
Use(c) ==
  /\ At(c, "use")
  /\ Return(c, "end")
  /\ UNCHANGED <<config, browser, contexts, table, clicks>>

Timed(t) == config.closeIdle /\ IsTracked(t)

RearmSlip(t, new) ==
  /\ gen' = [gen EXCEPT ![t] = IF @ = 0 THEN 1 ELSE @]
  /\ armed' = (armed \ OfEntry(t)) \cup new

(* The entry's timer is stopped; a callback that has expired already finds *)
(* another generation.                                                     *)
Rearm(t, new) ==
  /\ gen' = [gen EXCEPT ![t] = @ + 1]
  /\ armed' = (armed \ OfEntry(t)) \cup new

CancelAutoClose(c) ==
  LET t == call[c].tab IN
  /\ At(c, "use")
  /\ Over(c)
  /\ IF Timed(t) THEN Rearm(t, {}) ELSE UNCHANGED <<gen, armed>>
  /\ UNCHANGED <<config, browser, contexts, entry, fired, limit, clicks>>

ScheduleAutoClose(c) ==
  LET t == call[c].tab IN
  /\ At(c, "end")
  /\ Over(c)
  /\ IF Timed(t)
       THEN Rearm(t, {[tab |-> t, gen |-> gen[t] + 1, of |-> entry[t]]})
       ELSE UNCHANGED <<gen, armed>>
  /\ UNCHANGED <<config, browser, contexts, entry, fired, limit, clicks>>

Expire ==
  \E a \in armed :
    /\ armed' = armed \ {a}
    /\ fired' = fired \cup {a}
    /\ UNCHANGED <<config, browser, contexts, entry, gen, limit, clicks, call>>

Current(f) == IsTracked(f.tab) /\ gen[f.tab] = f.gen

(* autoCloseFire: a callback of the current generation closes the tab.  It *)
(* forgets the entry's timer: one that is armed then, which needs another  *)
(* entry of the same generation, can no longer be stopped.                 *)
Fire(c) ==
  \E f \in fired :
    /\ Current(f)
    /\ Begin(c, Closing(f.tab))
    /\ fired' = (fired \ {f}) \cup OfEntry(f.tab)
    /\ armed' = armed \ OfEntry(f.tab)
    /\ UNCHANGED <<config, browser, contexts, entry, gen, limit, clicks>>

FireStale ==
  \E f \in fired :
    /\ ~Current(f)
    /\ fired' = fired \ {f}
    /\ UNCHANGED <<config, browser, contexts, entry, gen, armed, limit, clicks, call>>

(* A click on a tracked tab announces itself to the popup guard; a click   *)
(* that still waits for the same tab's popups is displaced.                *)
MarkPendingClick(c) ==
  LET t == call[c].tab IN
  /\ At(c, "use") /\ config.guarded /\ IsTracked(t)
  /\ slot' = [slot EXCEPT ![t] = c]
  /\ Return(c, "click")
  /\ UNCHANGED <<config, browser, contexts, table, captured, claimed>>

PopupOpens(t, p) ==
  /\ config.guarded /\ t \in Open /\ NewTarget(p)
  /\ page' = [page EXCEPT ![p] = "open"]
  /\ opener' = [opener EXCEPT ![p] = t]
  /\ UNCHANGED <<config, purging, contexts, table, clicks, call>>

Awaited(p) == LET c == slot[opener[p]] IN c # None /\ captured[c] = None

Heard(p) == opener' = [opener EXCEPT ![p] = None]

(* The guard hears of the popup and keeps it for the pending click, or has *)
(* it closed, which may fail.                                              *)
ClaimPendingPopup(p) ==
  /\ opener[p] # None /\ Awaited(p) /\ Heard(p)
  /\ captured' = [captured EXCEPT ![slot[opener[p]]] = p]
  /\ claimed' = claimed \cup {p}
  /\ UNCHANGED <<config, page, purging, contexts, table, slot, call>>

GuardPopup(p) ==
  /\ opener[p] # None /\ ~Awaited(p) /\ Heard(p)
  /\ Gone(p) \/ UNCHANGED <<page, purging>>
  /\ UNCHANGED <<config, contexts, table, clicks, call>>

Cleared(c) == slot[call[c].tab] = c

(* clearPendingClick leaves the slot of a later click alone.               *)
ClearPendingClick(c) ==
  IF Cleared(c)
    THEN /\ slot' = [slot EXCEPT ![call[c].tab] = None]
         /\ captured' = [captured EXCEPT ![c] = None]
    ELSE UNCHANGED <<slot, captured>>

(* autoSwitchSession.finish: the popup that was captured is taken first    *)
(* and the slot cleared after it, with whatever was captured in between.   *)
TakePopup(c) ==
  /\ At(c, "click") /\ captured[c] # None
  /\ captured' = [captured EXCEPT ![c] = None]
  /\ call' = [call EXCEPT ![c].pc = "clear", ![c].page = captured[c]]
  /\ UNCHANGED <<config, browser, contexts, table, slot, claimed>>

ClearAfterPopup(c) ==
  /\ At(c, "clear")
  /\ ClearPendingClick(c)
  /\ claimed' = claimed \ {captured[c]}
  /\ call' = [call EXCEPT ![c].pc = "adopt", ![c].then = "insert"]
  /\ UNCHANGED <<config, browser, contexts, table>>

Fallback(c) == call' = [call EXCEPT ![c] = [Creating EXCEPT !.tab = call[c].tab]]

GiveUpSlip(c) ==
  /\ At(c, "click")
  /\ ClearPendingClick(c)
  /\ claimed' = IF Cleared(c) THEN claimed ELSE claimed \ {captured[c]}
  /\ Fallback(c) \/ Return(c, "end")
  /\ UNCHANGED <<config, browser, contexts, table>>

(* No popup in time, or the click failed: the slot is cleared and a popup  *)
(* found in it is closed; with a URL to go to, a tab is created instead.   *)
(* A displaced click clears nothing, and a popup it holds is left.         *)
GiveUp(c) ==
  /\ At(c, "click")
  /\ ClearPendingClick(c)
  /\ \/ /\ Cleared(c) /\ captured[c] # None
        /\ call' = [call EXCEPT ![c].pc = "shut", ![c].page = captured[c], ![c].then = "make"]
        /\ UNCHANGED claimed
     \/ /\ ~Cleared(c) \/ captured[c] = None
        /\ claimed' = claimed \ {captured[c]}
        /\ Fallback(c) \/ Return(c, "end")
  /\ UNCHANGED <<config, browser, contexts, table>>

(* closePopupTarget: the attempt settles the popup.                        *)
Shut(c) ==
  /\ At(c, "shut")
  /\ CloseTarget(call[c].page) \/ CloseTargetFails
  /\ claimed' = claimed \ {call[c].page}
  /\ \/ Return(c, "end")
     \/ call[c].then = "make" /\ Fallback(c)
  /\ UNCHANGED <<config, contexts, table, slot, captured>>

Step(c) ==
  \/ Resolve(c) \/ Adopt(c) \/ Count(c) \/ Choose(c) \/ Make(c) \/ Setup(c)
  \/ Attach(c) \/ Insert(c) \/ Reread(c)
  \/ List(c) \/ Lookup(c) \/ Close(c) \/ Find(c) \/ Drop(c)
  \/ Use(c) \/ CancelAutoClose(c) \/ ScheduleAutoClose(c)
  \/ MarkPendingClick(c) \/ TakePopup(c) \/ ClearAfterPopup(c) \/ GiveUp(c) \/ Shut(c)

Start(c) == StartCreate(c) \/ StartClose(c) \/ StartRequest(c) \/ Fire(c)

Purge(t) == PurgeFind(t) \/ PurgeDrop(t)

Popup(p) == (\E t \in Targets : PopupOpens(t, p)) \/ ClaimPendingPopup(p) \/ GuardPopup(p)

Next ==
  \/ \E c \in Calls : Start(c) \/ Step(c)
  \/ \E t \in Targets : Purge(t) \/ PageDies(t) \/ Popup(t)
  \/ Expire \/ FireStale

Spec == Init /\ [][Next]_vars
=============================================================================
