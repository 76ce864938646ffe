--------------------------------- MODULE Pool --------------------------------
(***************************************************************************)
(* hlib::Pool: elements kept in a deque, made by a factory when the deque is *)
(* empty.  add() and put() work under m_mutex.  get() locks it, but unlocks  *)
(* it to call the factory and does not lock it again: it then moves the      *)
(* front out and pops it with no lock held.                                  *)
(***************************************************************************)
EXTENDS Naturals, Sequences, FiniteSets, SequencesExt

CONSTANTS
    Thread,
    NoThread,
    NoElement,
    Usage,          \* how a program uses its pool: the constructor's arguments
                    \* (maximum 0 is "no maximum"), and the threads that use it
    MaxMade,        \* bound: elements made, by the factory or by users
    MaxHeld         \* bound: elements a thread holds

Element == 1..MaxMade

ConstantsAreValid ==
    /\ {MaxMade, MaxHeld} \subseteq Nat
    /\ Usage \subseteq [maximum : Nat, initial : 0..MaxMade, users : SUBSET Thread]
    /\ NoThread \notin Thread /\ NoElement \notin Element

(* A program whose get() never calls the factory while another thread may use *)
(* the pool: one thread alone, or as many elements from the start as its      *)
(* threads hold together.                                                    *)
PoolIsBigEnough ==
    \A usage \in Usage :
        \/ \E t \in Thread : usage.users \subseteq {t}
        \/ /\ IsFiniteSet(usage.users)
           /\ usage.initial >= Cardinality(usage.users) * MaxHeld

VARIABLES
    m_pool,
    m_mutex,        \* its owner, or NoThread
    m_maximum,
    m_count,
    users,          \* the threads that use the pool
    at,             \* per thread: where it is in an operation
    element,        \* per thread: the local of get()
    held,           \* the elements each thread has got
    made            \* number of elements made

vars == <<m_pool, m_mutex, m_maximum, m_count, users, at, element, held, made>>
fixed == <<m_maximum, m_count, users>>

Location == {"idle", "make", "add", "move", "pop", "undefined", "aborted"}

TypeOK ==
    /\ m_pool \in Seq(Element)
    /\ m_mutex \in Thread \cup {NoThread}
    /\ m_maximum \in Nat /\ m_count \in Nat
    /\ users \subseteq Thread
    /\ at \in [Thread -> Location]
    /\ element \in [Thread -> Element \cup {NoElement}]
    /\ held \in [Thread -> SUBSET Element]
    /\ made \in 0..MaxMade

(* The constructor adds the initial elements; add() does not count them.      *)
Init ==
    /\ \E usage \in Usage :
           /\ m_maximum = usage.maximum
           /\ m_pool = [k \in 1..usage.initial |-> k]
           /\ users = usage.users
           /\ made = usage.initial
    /\ m_mutex = NoThread
    /\ m_count = 0
    /\ at = [t \in Thread |-> "idle"]
    /\ element = [t \in Thread |-> NoElement]
    /\ held = [t \in Thread |-> {}]

Goto(t, location) == at' = [at EXCEPT ![t] = location]

-----------------------------------------------------------------------------
(* Mutant of GetBegin: the lock is released before the front is taken.        *)
GetUnlocked(t) ==
    /\ at[t] = "idle"
    /\ Cardinality(held[t]) < MaxHeld
    /\ m_mutex = NoThread
    /\ Goto(t, IF m_pool = <<>> THEN "make" ELSE "move")
    /\ UNCHANGED <<m_pool, m_mutex, fixed, element, held, made>>

(* get(): look for an element under the lock; if there is none, unlock.       *)
GetBegin(t) ==
    /\ at[t] = "idle"
    /\ Cardinality(held[t]) < MaxHeld
    /\ m_mutex = NoThread
    /\ IF m_pool = <<>>
         THEN Goto(t, "make") /\ UNCHANGED m_mutex
         ELSE Goto(t, "move") /\ m_mutex' = t
    /\ UNCHANGED <<m_pool, fixed, element, held, made>>

Make(t) ==
    /\ at[t] = "make"
    /\ made < MaxMade
    /\ made' = made + 1
    /\ element' = [element EXCEPT ![t] = made + 1]
    /\ Goto(t, "add")
    /\ UNCHANGED <<m_pool, m_mutex, fixed, held>>

(* add() under the lock.  m_count is never increased: it does not throw.      *)
Full == m_maximum # 0 /\ m_count >= m_maximum

Add(e) == m_pool' = IF Full THEN m_pool ELSE Append(m_pool, e)

AddMade(t) ==
    /\ at[t] = "add"
    /\ m_mutex = NoThread
    /\ Add(element[t])
    /\ element' = [element EXCEPT ![t] = NoElement]
    /\ Goto(t, IF Full THEN "idle" ELSE "move")
    /\ UNCHANGED <<m_mutex, fixed, held, made>>

(* get(): move m_pool.front() out, and then pop_front(): with the lock held   *)
(* if the pool was not empty, without it after add().                        *)
MoveFront(t) ==
    /\ at[t] = "move"
    /\ IF m_pool = <<>>
         THEN Goto(t, "undefined") /\ UNCHANGED element
         ELSE Goto(t, "pop") /\ element' = [element EXCEPT ![t] = Head(m_pool)]
    /\ UNCHANGED <<m_pool, m_mutex, fixed, held, made>>

PopFront(t) ==
    /\ at[t] = "pop"
    /\ IF m_pool = <<>>
         THEN Goto(t, "undefined") /\ UNCHANGED <<m_pool, m_mutex, element, held>>
         ELSE /\ m_pool' = Tail(m_pool)
              /\ held' = [held EXCEPT ![t] = @ \cup {element[t]}]
              /\ element' = [element EXCEPT ![t] = NoElement]
              /\ m_mutex' = IF m_mutex = t THEN NoThread ELSE m_mutex
              /\ Goto(t, "idle")
    /\ UNCHANGED <<fixed, made>>

(* put(), with its assertion. *)
Put(t, e) ==
    /\ at[t] = "idle"
    /\ e \in held[t]
    /\ m_mutex = NoThread
    /\ m_pool' = Append(m_pool, e)
    /\ held' = [held EXCEPT ![t] = @ \ {e}]
    /\ IF m_maximum = 0 \/ Len(m_pool) + 1 <= m_maximum
         THEN UNCHANGED at
         ELSE Goto(t, "aborted")
    /\ UNCHANGED <<m_mutex, fixed, element, made>>

(* add() called by a user, with an element of its own.                       *)
AddNew(t) ==
    /\ at[t] = "idle"
    /\ made < MaxMade
    /\ m_mutex = NoThread
    /\ Add(made + 1)
    /\ made' = made + 1
    /\ UNCHANGED <<m_mutex, fixed, at, element, held>>

Next ==
    \E t \in users :
        \/ GetBegin(t) \/ Make(t) \/ AddMade(t) \/ MoveFront(t) \/ PopFront(t)
        \/ \E e \in Element : Put(t, e)
        \/ AddNew(t)

Spec == Init /\ [][Next]_vars

-----------------------------------------------------------------------------
(* The local of get() while it is not in the pool any more. *)
InHand(t) == IF at[t] = "add" THEN {element[t]} ELSE {}

(* No element is handed out twice or lost: each one made is in the pool once, *)
(* or with exactly one thread, and the front of an empty deque is never taken *)
(* (get() and put()).                                                        *)
ElementsAreExclusive ==
    /\ \A t \in Thread : at[t] # "undefined"
    /\ IsInjective(m_pool)
    /\ \A t, u \in Thread : t # u => held[t] \cap held[u] = {}
    /\ \A t \in Thread : held[t] \cap Range(m_pool) = {}
    /\ 1..made = Range(m_pool) \cup UNION {held[t] \cup InHand(t) : t \in Thread}

(* The assertion of put(): the pool holds no more than its maximum.           *)
PutAsserts == \A t \in Thread : at[t] # "aborted"

(* "Unlock to call factory unlocked": only the factory is called without the  *)
(* lock, so a thread that takes the front of the deque holds m_mutex.         *)
FrontTakenLocked == \A t \in Thread : at[t] \in {"move", "pop"} => m_mutex = t
=============================================================================
