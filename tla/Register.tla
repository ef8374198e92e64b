------------------------------ MODULE Register ------------------------------
(***************************************************************************)
(* The registers every factory of the framework is looked up in            *)
(* (register/register.go).  An Untyped register is a map under a lock: each*)
(* of its methods is one action.  A Namespaced register is an Untyped one  *)
(* of registers, and its methods look before they act without a lock.      *)
(***************************************************************************)
EXTENDS Integers

CONSTANTS Goroutines, Namespaces, Names,
          MaxRegisters   \* bound on the Untyped registers ever created

ASSUME MaxRegistersAssumption == MaxRegisters \in Nat \ {0}

Absent  == 0                    \* no such key
Untyped == 1 .. MaxRegisters    \* pointers, in the order of NewUntyped
Call    == [op : {"Register"}, namespace : Namespaces, name : Names]
             \cup [op : {"AddNamespace"}, namespace : Namespaces]
NoCall  == [op |-> "none"]

VARIABLES
    top,        \* [Namespaces -> Untyped \cup {Absent}], Namespaced.data
    entries,    \* [Untyped -> SUBSET Names], the keys of each register
    created,    \* how many registers there are
    pc,         \* [Goroutines -> {"idle", "store", "publish"}]
    call,       \* [Goroutines -> Call \cup {NoCall}]
    register,   \* [Goroutines -> Untyped \cup {Absent}], the local variable
    \* history:
    done,       \* {<<namespace, name>>} whose Register has returned
    alone,      \* [Goroutines -> BOOLEAN], no other call was creating the
                \* namespace at any moment of this call
    early       \* the entries of done whose call was not alone

vars == <<top, entries, created, pc, call, register, done, alone, early>>

\* The calls that found the namespace absent and have yet to publish theirs.
Creating(ns) == {g \in Goroutines : pc[g] = "publish" /\ call[g].namespace = ns}
Known(ns)    == top[ns] # Absent /\ Creating(ns) = {}

TypeOK ==
    /\ top \in [Namespaces -> Untyped \cup {Absent}]
    /\ entries \in [Untyped -> SUBSET Names]
    /\ created \in 0 .. MaxRegisters
    /\ pc \in [Goroutines -> {"idle", "store", "publish"}]
    /\ call \in [Goroutines -> Call \cup {NoCall}]
    /\ register \in [Goroutines -> Untyped \cup {Absent}]
    /\ alone \in [Goroutines -> BOOLEAN]
    /\ early \subseteq done /\ done \subseteq Namespaces \X Names
    /\ \A g \in Goroutines : pc[g] # "idle" => register[g] \in 1 .. created

Init ==
    /\ top = [ns \in Namespaces |-> Absent]
    /\ entries = [u \in Untyped |-> {}]
    /\ created = 0
    /\ pc = [g \in Goroutines |-> "idle"]
    /\ call = [g \in Goroutines |-> NoCall]
    /\ register = [g \in Goroutines |-> Absent]
    /\ alone = [g \in Goroutines |-> TRUE]
    /\ done = {} /\ early = {}

-----------------------------------------------------------------------------
(* Each call looks the namespace up (Namespaced.Get) ...                   *)

Returned(g) ==
    /\ pc' = [pc EXCEPT ![g] = "idle"]
    /\ call' = [call EXCEPT ![g] = NoCall]
    /\ register' = [register EXCEPT ![g] = Absent]
    /\ alone' = [alone EXCEPT ![g] = TRUE]

\* ... and stops there if it is AddNamespace and finds it,
AddKnownNamespace(g, ns) ==
    /\ pc[g] = "idle" /\ top[ns] # Absent
    /\ UNCHANGED vars

\* ... or goes on with the register it found,
Find(g, c) ==
    /\ pc[g] = "idle"
    /\ c.op = "Register" /\ top[c.namespace] # Absent
    /\ register' = [register EXCEPT ![g] = top[c.namespace]]
    /\ pc' = [pc EXCEPT ![g] = "store"]
    /\ call' = [call EXCEPT ![g] = c]
    /\ alone' = [alone EXCEPT ![g] = Creating(c.namespace) = {}]
    /\ UNCHANGED <<top, entries, created, done, early>>

\* NewUntyped
New(g, c) ==
    /\ created' = created + 1
    /\ register' = [register EXCEPT ![g] = created + 1]
    /\ entries' = [entries EXCEPT ![created + 1] =
                      IF c.op = "Register" THEN {c.name} ELSE {}]
    /\ pc' = [pc EXCEPT ![g] = "publish"]
    /\ call' = [call EXCEPT ![g] = c]
    /\ alone' = [h \in Goroutines |->
                    IF h = g THEN Creating(c.namespace) = {}
                    ELSE alone[h] /\ h \notin Creating(c.namespace)]
    /\ UNCHANGED <<top, done, early>>

\* A Register that always starts a register of its own.
CreateAnyway(g, c) ==
    /\ pc[g] = "idle" /\ created < MaxRegisters
    /\ New(g, c)

\* ... or with a new one, which holds the entry already.
Create(g, c) ==
    /\ pc[g] = "idle" /\ created < MaxRegisters
    /\ top[c.namespace] = Absent
    /\ New(g, c)

\* The end of a call.
Done(g) ==
    LET entry == <<call[g].namespace, call[g].name>>
    IN  IF call[g].op = "Register"
        THEN /\ done' = done \cup {entry}
             /\ early' = IF alone[g] THEN early ELSE early \cup {entry}
        ELSE UNCHANGED <<done, early>>

\* A Register that leaves the entry to the register of its own.
StoreNowhere(g) ==
    /\ pc[g] = "store"
    /\ Done(g) /\ Returned(g)
    /\ UNCHANGED <<top, entries, created>>

\* Untyped.Register
Store(g) ==
    /\ pc[g] = "store"
    /\ entries' = [entries EXCEPT ![register[g]] = @ \cup {call[g].name}]
    /\ Done(g) /\ Returned(g)
    /\ UNCHANGED <<top, created>>

\* n.data.Register(namespace, register)
Publish(g) ==
    /\ pc[g] = "publish"
    /\ top' = [top EXCEPT ![call[g].namespace] = register[g]]
    /\ Done(g) /\ Returned(g)
    /\ UNCHANGED <<entries, created>>

Next ==
    \E g \in Goroutines :
        \/ \E ns \in Namespaces : AddKnownNamespace(g, ns)
        \/ \E c \in Call : Find(g, c) \/ Create(g, c)
        \/ Store(g) \/ Publish(g)

Spec == Init /\ [][Next]_vars

-----------------------------------------------------------------------------
(* Properties                                                              *)

\* Namespaced.Get and Untyped.Get
Found(ns, name) == top[ns] # Absent /\ name \in entries[top[ns]]

(***************************************************************************)
(* Once a registration has returned, its entry is found (register.go:31),  *)
(* except an entry some call for which overlapped another call that was    *)
(* creating the namespace: loading the plugins one after another, or       *)
(* adding the namespace first (AddNamespace), is enough to lose nothing.   *)
(***************************************************************************)
NothingLostOnceKnown == \A e \in done \ early : Found(e[1], e[2])

(***************************************************************************)
(* A namespace that exists and that nobody is creating keeps its register  *)
(* for ever, so a pointer returned by Get stays the current one.           *)
(***************************************************************************)
KnownStays ==
    [][\A ns \in Namespaces :
          Known(ns) => (top'[ns] = top[ns] /\ Known(ns)')]_vars
=============================================================================
