---------------------------- MODULE FilterManager ----------------------------
(***************************************************************************)
(* FilterManager of src/model/event/filter/kb_filter.go.  Callers install  *)
(* and uninstall filters under the write lock of filterMu; the filterLoop  *)
(* goroutine takes each event from the event mux and, under the read lock, *)
(* calls back every installed filter, one callback a step.  Stop closes    *)
(* quit, which NewFilterManager never makes, so it is the nil channel.     *)
(*                                                                         *)
(* A filter is its id; which callback an event calls (block, transaction   *)
(* or logs) does not matter to the lock, so an event is a count.           *)
(***************************************************************************)
EXTENDS Naturals, FiniteSets

CONSTANTS
    MaxIds,     \* bound: InstallFilter calls
    MaxEvents   \* bound: events posted to the mux

VARIABLES
    filters,    \* the ids in self.filters
    filterId,   \* self.filterId, the next id
    readers,    \* 1 while filterLoop holds the read lock of filterMu
    loop,       \* filterLoop: "off", "starting" (not yet subscribed), "wait",
                \* "call" (in the range loop) or "stopped"
    toCall,     \* the ids the loop has still to call back for this event
    posted,     \* events delivered to the subscription, not yet taken by the loop
    nposted,    \* events posted so far
    uninstalled,\* ids of installed filters an UninstallFilter call has deleted
    stop        \* "none", or "panicked" once Stop has closed the nil channel

vars == <<filters, filterId, readers, loop, toCall, posted, nposted, uninstalled, stop>>

\* After a panic nothing runs.
Alive == stop # "panicked"

Init ==
    /\ filters = {} /\ filterId = 0 /\ readers = 0
    /\ loop = "off" /\ toCall = {} /\ posted = 0 /\ nposted = 0
    /\ uninstalled = {} /\ stop = "none"

\* Start: go self.filterLoop().
Start ==
    /\ Alive /\ loop = "off"
    /\ loop' = "starting"
    /\ UNCHANGED <<filters, filterId, readers, toCall, posted, nposted, uninstalled, stop>>

\* filterLoop's first statement: eventMux.Subscribe(ChainEvent, TxPreEvent, Logs).
Subscribe ==
    /\ Alive /\ loop = "starting"
    /\ loop' = "wait"
    /\ UNCHANGED <<filters, filterId, readers, toCall, posted, nposted, uninstalled, stop>>

InstallFilter ==
    /\ Alive /\ readers = 0
    /\ filterId < MaxIds
    /\ filters' = filters \cup {filterId}
    /\ filterId' = filterId + 1
    /\ UNCHANGED <<readers, loop, toCall, posted, nposted, uninstalled, stop>>

\* Mutant of UninstallFilter: the delete is done without taking filterMu.
UninstallNoLock(id) ==
    /\ Alive
    /\ filters' = filters \ {id}
    /\ uninstalled' = uninstalled \cup ({id} \cap filters)
    /\ UNCHANGED <<filterId, readers, loop, toCall, posted, nposted, stop>>

\* UninstallFilter(id): under Lock, delete filters[id] if present.
UninstallFilter(id) ==
    /\ Alive /\ readers = 0
    /\ filters' = filters \ {id}
    /\ uninstalled' = uninstalled \cup ({id} \cap filters)
    /\ UNCHANGED <<filterId, readers, loop, toCall, posted, nposted, stop>>

\* An event (ChainEvent, TxPreEvent, state.Logs) is posted to the mux.  The
\* mux hands it only to subscriptions that exist: before filterLoop has
\* subscribed, the event reaches nobody.  A poster to a busy subscription
\* waits; posted counts the waiting posters.
Post ==
    /\ Alive /\ nposted < MaxEvents
    /\ posted' = IF loop \in {"wait", "call"} THEN posted + 1 ELSE posted
    /\ nposted' = nposted + 1
    /\ UNCHANGED <<filters, filterId, readers, loop, toCall, uninstalled, stop>>

\* The select takes an event from events.Chan() (quit, being nil, is never
\* ready); the loop takes the read lock and ranges over self.filters.
Receive ==
    /\ Alive /\ loop = "wait" /\ posted > 0
    /\ posted' = posted - 1
    /\ readers' = 1
    /\ toCall' = filters
    /\ loop' = "call"
    /\ UNCHANGED <<filters, filterId, nposted, uninstalled, stop>>

\* One callback of the range loop.
Callback(id) ==
    /\ Alive /\ loop = "call" /\ id \in toCall
    /\ toCall' = toCall \ {id}
    /\ UNCHANGED <<filters, filterId, readers, loop, posted, nposted, uninstalled, stop>>

\* Mutant of Unlock: "break out" in place of "break" after the range loop,
\* so the loop ends after its first event.
UnlockBreakOut ==
    /\ Alive /\ loop = "call" /\ toCall = {}
    /\ readers' = 0
    /\ loop' = "stopped"
    /\ UNCHANGED <<filters, filterId, toCall, posted, nposted, uninstalled, stop>>

\* The range is over: RUnlock, back to the select.
Unlock ==
    /\ Alive /\ loop = "call" /\ toCall = {}
    /\ readers' = 0
    /\ loop' = "wait"
    /\ UNCHANGED <<filters, filterId, toCall, posted, nposted, uninstalled, stop>>

\* Stop: close(self.quit).  quit is the nil channel, and closing it panics.
\* For the same reason "case <-self.quit" in filterLoop is never ready.
Stop ==
    /\ Alive
    /\ stop' = "panicked"
    /\ UNCHANGED <<filters, filterId, readers, loop, toCall, posted, nposted, uninstalled>>

Next ==
    \/ Start \/ Subscribe \/ InstallFilter \/ \E id \in 0..MaxIds - 1 : UninstallFilter(id)
    \/ Post \/ Receive \/ \E id \in 0..MaxIds - 1 : Callback(id) \/ Unlock
    \/ Stop

\* The filterLoop goroutine runs whenever it can; callers are not obliged
\* to call anything.
Fairness == WF_vars(Subscribe) /\ WF_vars(Receive) /\ WF_vars(\E id \in 0..MaxIds - 1 : Callback(id)) /\ WF_vars(Unlock)

Spec == Init /\ [][Next]_vars /\ Fairness

-----------------------------------------------------------------------------
(* Properties *)

TypeOK ==
    /\ filters \subseteq 0..MaxIds - 1
    /\ filterId \in 0..MaxIds
    /\ readers \in {0, 1}
    /\ loop \in {"off", "starting", "wait", "call", "stopped"}
    /\ toCall \subseteq 0..MaxIds - 1
    /\ posted \in 0..MaxEvents
    /\ stop \in {"none", "panicked"}

\* The read lock in filterLoop and the write lock in UninstallFilter: no
\* step of the range loop calls back a filter whose UninstallFilter call
\* has returned, not even for an event the loop took before the call.
NoCallbackAfterUninstall ==
    [][\A id \in uninstalled : id \in toCall => id \in toCall']_vars

\* Every event delivered to filterLoop's subscription is handled: the loop,
\* which holds the read lock only for one range over the filters, gets back
\* to its select and takes every waiting event.
EventsHandled == (posted > 0) ~> (posted = 0 \/ ~Alive)

\* Stop shuts the FilterManager down: after Stop, filterLoop leaves its loop.
StopEndsFilterLoop == (stop # "none") ~> (loop = "stopped")
=============================================================================
