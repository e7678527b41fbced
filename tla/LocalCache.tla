----------------------------- MODULE LocalCache ------------------------------
(***************************************************************************)
(* The local cache with single flight (src/pkg/db/cache/freecache.go), for *)
(* one key: keys do not touch each other.  Many goroutines call            *)
(* GetOrLoadCache at once, others store and delete, entries expire, and    *)
(* the data the loader reads changes underneath.                           *)
(*                                                                         *)
(* A call is the control point of its goroutine:                           *)
(*                                                                         *)
(*   "new" -> "missed" -> "leading" -> "loading" -> "loaded" -> "ending"   *)
(*     |         |            +---- second look hits ------------^  |      *)
(*     |         +-> "waiting" for the leader ----------------------+      *)
(*     v                                                            v      *)
(*  "returned" <---------------------------------------------- "copying"   *)
(*                                                  "failed" <-----+       *)
(*                                                                         *)
(* No server of the repository uses the package yet; the callers, the      *)
(* loader and the changing data are those its signatures allow.            *)
(***************************************************************************)
EXTENDS Naturals, FiniteSets

CONSTANTS
    Calls,       \* calls of GetOrLoadCache, each with an object v of its own
    MaxVersion   \* bound: how often the data changes

ASSUME MaxVersionAssumption == MaxVersion \in Nat \ {0}

Versions == 1 .. MaxVersion
Absent   == 0                \* no entry, no data
Changed  == MaxVersion + 1   \* an object its owner has written to

VARIABLES
    source,      \* the version of the data the loader reads
    entry,       \* the cached version, or Absent
    pc,          \* where each call is
    leader,      \* the call that runs the function of sf.Do, if any
    loaded,      \* what each leader's loader has returned
    object,      \* the contents of each call's v
    answer,      \* what each call has got from sf.Do
    floor,       \* history: the version at the last DelCache that met no flight
    since        \* history: floor when each call began, while it lasts

calls == <<pc, leader, loaded, object, answer, since>>
lvars == <<source, entry, calls, floor>>

(* val and err of singleflight.Do: nothing yet, the loader's data, the      *)
(* leader's own object, or an error.                                        *)
Answers ==
    [kind : {"none", "error"}] \cup [kind : {"data"}, version : Versions]
        \cup [kind : {"object"}, of : Calls]

NoAnswer == [kind |-> "none"]

Go(c, label) == pc' = [pc EXCEPT ![c] = label]

Got(c, a) == answer' = [answer EXCEPT ![c] = a]

-----------------------------------------------------------------------------
(* GetOrLoadCache *)

(* The first GetCache. *)
FirstLook(c) ==
    /\ pc[c] = "new"
    /\ IF entry # Absent
       THEN /\ object' = [object EXCEPT ![c] = entry]
            /\ Go(c, "returned")
            /\ UNCHANGED since
       ELSE /\ since' = [since EXCEPT ![c] = floor]
            /\ Go(c, "missed")
            /\ UNCHANGED object
    /\ UNCHANGED <<source, entry, leader, loaded, answer, floor>>

(* Mutant: everybody leads. *)
DoAlone(c) ==
    /\ pc[c] = "missed"
    /\ leader' = {c} /\ Go(c, "leading")
    /\ UNCHANGED <<source, entry, loaded, object, answer, since, floor>>

(* sf.Do: the first caller leads, the others wait for it. *)
Do(c) ==
    /\ pc[c] = "missed"
    /\ IF leader = {}
       THEN leader' = {c} /\ Go(c, "leading")
       ELSE UNCHANGED leader /\ Go(c, "waiting")
    /\ UNCHANGED <<source, entry, loaded, object, answer, since, floor>>

SecondLook(c) ==
    /\ pc[c] = "leading"
    /\ IF entry # Absent
       THEN /\ object' = [object EXCEPT ![c] = entry]
            /\ Got(c, [kind |-> "object", of |-> c])
            /\ Go(c, "ending")
       ELSE Go(c, "loading") /\ UNCHANGED <<object, answer>>
    /\ UNCHANGED <<source, entry, leader, loaded, since, floor>>

LoaderFails(c) ==
    /\ pc[c] = "loading"
    /\ Got(c, [kind |-> "error"])
    /\ Go(c, "ending")
    /\ UNCHANGED <<source, entry, leader, loaded, object, since, floor>>

(* The loader has read the data and is on its way back with it. *)
LoaderReads(c) ==
    /\ pc[c] = "loading"
    /\ loaded' = [loaded EXCEPT ![c] = source]
    /\ Go(c, "loaded")
    /\ UNCHANGED <<source, entry, leader, object, answer, since, floor>>

(* Mutant: the leader's object takes the data and is the answer. *)
StoreAsObject(c) ==
    /\ pc[c] = "loaded"
    /\ entry' = loaded[c]
    /\ object' = [object EXCEPT ![c] = loaded[c]]
    /\ Got(c, [kind |-> "object", of |-> c])
    /\ Go(c, "ending")
    /\ UNCHANGED <<source, leader, loaded, since, floor>>

(* SetCache of what was loaded; if it fails (too large an entry, say) the   *)
(* data is thrown away.                                                     *)
Store(c) ==
    /\ pc[c] = "loaded"
    /\ \/ /\ entry' = loaded[c]
          /\ Got(c, [kind |-> "data", version |-> loaded[c]])
       \/ UNCHANGED entry /\ Got(c, [kind |-> "error"])
    /\ Go(c, "ending")
    /\ UNCHANGED <<source, leader, loaded, object, since, floor>>

(* Mutant: after an error nobody wakes the waiting calls. *)
EndFlightForgetsWaiters(c) ==
    /\ pc[c] = "ending"
    /\ leader' = {}
    /\ LET done == {c} \cup {d \in Calls : pc[d] = "waiting" /\ answer[c].kind # "error"}
       IN  /\ pc' = [d \in Calls |-> IF d \in done THEN "copying" ELSE pc[d]]
           /\ answer' = [d \in Calls |-> IF d \in done THEN answer[c] ELSE answer[d]]
    /\ UNCHANGED <<source, entry, loaded, object, since, floor>>

(* Do ends: the flight is forgotten and everyone that waits gets val, err.  *)
EndFlight(c) ==
    /\ pc[c] = "ending"
    /\ leader' = {}
    /\ LET done == {c} \cup {d \in Calls : pc[d] = "waiting"}
       IN  /\ pc' = [d \in Calls |-> IF d \in done THEN "copying" ELSE pc[d]]
           /\ answer' = [d \in Calls |-> IF d \in done THEN answer[c] ELSE answer[d]]
    /\ UNCHANGED <<source, entry, loaded, object, since, floor>>

(* What the answer contains: data, or an object as it is by now. *)
Contents(a) == IF a.kind = "data" THEN a.version ELSE object[a.of]

(* After Do: an error, or, if val is not v itself, val is copied into v     *)
(* through JSON.                                                            *)
Return(c) ==
    /\ pc[c] = "copying"
    /\ IF answer[c].kind = "error"
       THEN Go(c, "failed") /\ UNCHANGED object
       ELSE /\ object' = [object EXCEPT ![c] = Contents(answer[c])]
            /\ Go(c, "returned")
    /\ Got(c, NoAnswer)
    /\ since' = [since EXCEPT ![c] = Absent]
    /\ UNCHANGED <<source, entry, leader, loaded, floor>>

-----------------------------------------------------------------------------
(* Around it *)

(* The caller owns v once the call has returned, and may write to it. *)
Use(c) ==
    /\ pc[c] = "returned" /\ object[c] # Changed
    /\ object' = [object EXCEPT ![c] = Changed]
    /\ UNCHANGED <<source, entry, pc, leader, loaded, answer, since, floor>>

(* The data changes in the database. *)
DataChanges ==
    /\ source < MaxVersion
    /\ source' = source + 1
    /\ UNCHANGED <<entry, calls, floor>>

(* Somebody who has the current data stores it. *)
SetCache ==
    /\ entry' = source
    /\ UNCHANGED <<source, calls, floor>>

(* A leader is on its way with what it has read. *)
InFlight == \E c \in Calls : pc[c] \in {"loaded", "ending"}

(* Mutant: the entry stays. *)
DelCacheNot ==
    /\ floor' = IF InFlight THEN floor ELSE source
    /\ UNCHANGED <<source, entry, calls>>

(* Whoever has changed the data deletes the entry. *)
DelCache ==
    /\ entry' = Absent
    /\ floor' = IF InFlight THEN floor ELSE source
    /\ UNCHANGED <<source, calls>>

(* ttlSeconds are over, or freecache needs the room. *)
Expire ==
    /\ entry # Absent
    /\ entry' = Absent
    /\ UNCHANGED <<source, calls, floor>>

LInit ==
    /\ source = 1 /\ entry = Absent
    /\ pc = [c \in Calls |-> "new"]
    /\ leader = {}
    /\ loaded = [c \in Calls |-> Absent]
    /\ object = [c \in Calls |-> Absent]
    /\ answer = [c \in Calls |-> NoAnswer]
    /\ floor = Absent
    /\ since = [c \in Calls |-> Absent]

(* The goroutine of a call goes on. *)
GetOrLoadCache(c) ==
    \/ FirstLook(c) \/ Do(c) \/ SecondLook(c)
    \/ LoaderFails(c) \/ LoaderReads(c) \/ Store(c)
    \/ EndFlight(c) \/ Return(c)

LNext ==
    \/ \E c \in Calls : GetOrLoadCache(c) \/ Use(c)
    \/ DataChanges \/ SetCache \/ DelCache \/ Expire

LSpec == LInit /\ [][LNext]_lvars

(* Goroutines run and loaders return.  Nothing else need happen. *)
LFairSpec == LSpec /\ \A c \in Calls : WF_lvars(GetOrLoadCache(c))

-----------------------------------------------------------------------------
(* Properties *)

(* Every variable has its type. *)
LTypeOK ==
    /\ source \in Versions
    /\ entry \in Versions \cup {Absent}
    /\ pc \in [Calls -> {"new", "missed", "leading", "loading", "loaded", "ending",
                         "waiting", "copying", "returned", "failed"}]
    /\ leader \in SUBSET Calls
    /\ loaded \in [Calls -> Versions \cup {Absent}]
    /\ object \in [Calls -> Versions \cup {Absent, Changed}]
    /\ answer \in [Calls -> Answers]
    /\ floor \in Versions \cup {Absent}
    /\ since \in [Calls -> Versions \cup {Absent}]

(* However many calls miss at once, one loader runs: what single flight is  *)
(* there for.                                                               *)
OneLoader ==
    \A c, d \in Calls :
        pc[c] \in {"loading", "loaded"} /\ pc[d] \in {"loading", "loaded"} => c = d

Returns(c) == pc[c] # "returned" /\ pc'[c] = "returned"

(* A call that begins after a DelCache returns nothing older than the data  *)
(* was then, unless that DelCache met a flight, which may store, or hand to *)
(* late comers, what it had read before.                                    *)
FreshAfterDelete ==
    [][\A c \in Calls : Returns(c) =>
          object'[c] >= IF pc[c] = "new" THEN floor ELSE since[c]]_lvars

(* A call returns data as it was loaded or stored.  The one exception: the  *)
(* leader found the entry on its second look, so that the others copy from  *)
(* its object, which its owner may have written to before they do.          *)
OthersChangesOnlyBySecondLook ==
    [][\A c \in Calls : Returns(c) /\ object'[c] = Changed =>
          \E d \in Calls \ {c} :
              answer[c] = [kind |-> "object", of |-> d] /\ loaded[d] = Absent]_lvars

(* Every call that has missed returns, with a value or an error, whatever   *)
(* becomes of its leader.                                                   *)
EveryCallReturns == \A c \in Calls : pc[c] = "missed" ~> pc[c] \in {"returned", "failed"}

=============================================================================
