------------------------------ MODULE EventList ------------------------------
(***************************************************************************)
(* list/list.c: a singly linked list whose links are taken from a fixed    *)
(* pool inside list_t.  One thread uses the list here, so a call is never  *)
(* interrupted by another call; EventThreads models what two threads do to *)
(* each other.  listAdd has no loop over the list and is one action; the   *)
(* loops of listRemoveData and listRemoveAll are one action an iteration.  *)
(***************************************************************************)
EXTENDS Naturals, Sequences, SequencesExt

CONSTANTS
    PoolSize,   \* MAX_LIST_SIZE
    Data,       \* the uint32 values callers store
    Zero        \* what memset leaves in link.data

ASSUME PoolAssumption == PoolSize \in Nat \ {0}
ASSUME DataAssumption == Zero \in Data

NULL == 0
Links == 1..PoolSize

VARIABLES
    head, tail,         \* list_t.head and tail
    next, data, isUsed, \* the fields of list_t.pool
    count,              \* list_t.count
    ret,                \* what the last finished call returned
    pc,                 \* the call in progress
    plink, plinkPre,    \* its local pointers
    target,             \* the argument of listRemoveData
    order               \* history: the links in the order they were added

listVars == <<head, tail, next, data, isUsed, count>>
callVars == <<pc, plink, plinkPre, target>>
vars == <<listVars, callVars, ret, order>>

Init ==
    /\ head = NULL
    /\ tail = NULL
    /\ next = [l \in Links |-> NULL]
    /\ data = [l \in Links |-> Zero]
    /\ isUsed = [l \in Links |-> FALSE]
    /\ count = 0
    /\ ret = "success"
    /\ pc = "idle"
    /\ plink = NULL
    /\ plinkPre = NULL
    /\ target = Zero
    /\ order = << >>

-----------------------------------------------------------------------------
(* listAdd *)

(* Mutant: the search ends one link early and takes the last link anyway. *)
IsEmptyLinkOrLast(l) == (~isUsed[l] \/ l = PoolSize) /\ \A m \in 1..(l - 1) : isUsed[m]

(* listFindEmptyLink: the first link of the pool that is not used. *)
IsEmptyLink(l) == ~isUsed[l] /\ \A m \in 1..(l - 1) : isUsed[m]

LinkFirst(l, d) ==
    /\ head = tail /\ head = NULL
    /\ next' = [next EXCEPT ![l] = NULL]
    /\ head' = l
    /\ tail' = l
    /\ count' = 1

(* Mutant: the new link is appended and tail left behind. *)
LinkLastKeepsTail(l, d) ==
    /\ ~ (head = tail /\ head = NULL)
    /\ next' = [next EXCEPT ![l] = NULL, ![tail] = l]
    /\ count' = count + 1
    /\ UNCHANGED <<head, tail>>

LinkLast(l, d) ==
    /\ ~ (head = tail /\ head = NULL)
    /\ next' = [next EXCEPT ![l] = NULL, ![tail] = l]
    /\ tail' = l
    /\ count' = count + 1
    /\ UNCHANGED head

Add(d) ==
    /\ pc = "idle"
    /\ \E l \in Links :
        /\ IsEmptyLink(l)
        /\ isUsed' = [isUsed EXCEPT ![l] = TRUE]
        /\ data' = [data EXCEPT ![l] = d]
        /\ LinkFirst(l, d) \/ LinkLast(l, d)
        /\ order' = Append(order, l)
    /\ ret' = "success"
    /\ UNCHANGED callVars

AddFails ==
    /\ pc = "idle"
    /\ \A l \in Links : isUsed[l]
    /\ ret' = "no_resource"
    /\ UNCHANGED <<listVars, callVars, order>>

-----------------------------------------------------------------------------
(* listRemoveData *)

RemoveBegin(d) ==
    /\ pc = "idle"
    /\ pc' = "remove"
    /\ target' = d
    /\ plink' = head
    /\ plinkPre' = NULL
    /\ UNCHANGED <<listVars, ret, order>>

Position(l) == CHOOSE k \in DOMAIN order : order[k] = l

RemoveMatch ==
    /\ pc = "remove"
    /\ plink # NULL
    /\ data[plink] = target
    /\ head' = IF plink = head THEN next[plink] ELSE head
    /\ tail' = IF plink = tail THEN plinkPre ELSE tail
    /\ next' = IF plinkPre = NULL THEN next
               ELSE [next EXCEPT ![plinkPre] = next[plink]]
    /\ isUsed' = [isUsed EXCEPT ![plink] = FALSE]
    /\ count' = count - 1
    /\ plink' = next[plink]
    /\ order' = RemoveAt(order, Position(plink))
    /\ UNCHANGED <<data, plinkPre, target, ret, pc>>

(* Mutants: the loop forgets the link it has passed, stops at the first link
   that does not match, or does not move on. *)
RemoveSkipForgets ==
    /\ pc = "remove" /\ plink # NULL /\ data[plink] # target
    /\ plink' = next[plink]
    /\ UNCHANGED <<listVars, plinkPre, target, ret, pc, order>>

RemoveSkipStops ==
    /\ pc = "remove" /\ plink # NULL /\ data[plink] # target
    /\ plink' = NULL
    /\ UNCHANGED <<listVars, plinkPre, target, ret, pc, order>>

RemoveSkipStays ==
    /\ pc = "remove" /\ plink # NULL /\ data[plink] # target
    /\ plinkPre' = plink
    /\ UNCHANGED <<listVars, plink, target, ret, pc, order>>

RemoveSkip ==
    /\ pc = "remove"
    /\ plink # NULL
    /\ data[plink] # target
    /\ plinkPre' = plink
    /\ plink' = next[plink]
    /\ UNCHANGED <<listVars, target, ret, pc, order>>

RemoveReturn ==
    /\ pc = "remove"
    /\ plink = NULL
    /\ pc' = "idle"
    /\ ret' = "success"
    /\ plinkPre' = NULL
    /\ UNCHANGED <<listVars, plink, target, order>>

-----------------------------------------------------------------------------
(* listRemoveAll *)

ClearBegin ==
    /\ pc = "idle"
    /\ pc' = "clear"
    /\ plink' = head
    /\ plinkPre' = NULL
    /\ UNCHANGED <<listVars, target, ret, order>>

(* Mutant: the links are walked and not given back. *)
ClearLinkLeaks ==
    /\ pc = "clear" /\ plink # NULL
    /\ plink' = next[plink]
    /\ UNCHANGED <<listVars, plinkPre, target, ret, pc, order>>

ClearLink ==
    /\ pc = "clear"
    /\ plink # NULL
    /\ isUsed' = [isUsed EXCEPT ![plink] = FALSE]
    /\ plink' = next[plink]
    /\ UNCHANGED <<head, tail, next, data, count, plinkPre, target, ret, pc, order>>

ClearReturn ==
    /\ pc = "clear"
    /\ plink = NULL
    /\ head' = NULL
    /\ tail' = NULL
    /\ count' = 0
    /\ order' = << >>
    /\ pc' = "idle"
    /\ ret' = "success"
    /\ UNCHANGED <<next, data, isUsed, plink, plinkPre, target>>

-----------------------------------------------------------------------------

(* The iterations of a call that has begun. *)
Loop == RemoveMatch \/ RemoveSkip \/ RemoveReturn \/ ClearLink \/ ClearReturn

Next ==
    \/ \E d \in Data : Add(d)
    \/ AddFails
    \/ \E d \in Data : RemoveBegin(d)
    \/ ClearBegin
    \/ Loop

Spec == Init /\ [][Next]_vars

(* A call that has begun runs on: nothing in list.c waits. *)
FairSpec == Spec /\ WF_vars(Loop)

-----------------------------------------------------------------------------
(* Properties *)

(* Every field holds a value of its C type; count stays within the pool. *)
TypeOK ==
    /\ head \in Links \cup {NULL}
    /\ tail \in Links \cup {NULL}
    /\ next \in [Links -> Links \cup {NULL}]
    /\ data \in [Links -> Data]
    /\ isUsed \in [Links -> BOOLEAN]
    /\ count \in 0..PoolSize
    /\ ret \in {"success", "no_resource"}
    /\ pc \in {"idle", "remove", "clear"}
    /\ plink \in Links \cup {NULL}
    /\ plinkPre \in Links \cup {NULL}
    /\ target \in Data
    /\ order \in Seq(Links)

(* No link is stored twice, and the pool marks exactly the stored links as
   used except those listRemoveAll has freed and not yet dropped. *)
Freed(k) == pc = "clear" /\ plink # order[k]
                /\ \A j \in DOMAIN order : order[j] = plink => k < j

OrderIsPool ==
    /\ \A j, k \in DOMAIN order : order[j] = order[k] => j = k
    /\ \A k \in DOMAIN order : isUsed[order[k]] <=> ~ Freed(k)
    /\ \A l \in Links : isUsed[l] => \E k \in DOMAIN order : order[k] = l

(* The pointers chain the links in the order they were added: listGetAt
   starting at head and listAdd starting at tail see the same list, also
   between two iterations of listRemoveData. *)
Chained ==
    /\ head = IF order = << >> THEN NULL ELSE order[1]
    /\ tail = IF order = << >> THEN NULL ELSE order[Len(order)]
    /\ \A k \in DOMAIN order :
        next[order[k]] = IF k = Len(order) THEN NULL ELSE order[k + 1]

(* list_t.count, which listGetAt trusts instead of testing for NULL, is the
   number of links that can be reached from head. *)
CountIsLength == count = Len(order)

WellFormed == OrderIsPool /\ Chained /\ CountIsLength

(* Where a loop stands: plinkPre is the link before plink, or NULL at the
   head, and everything before plink has been looked at. *)
LoopPosition ==
    /\ pc = "idle" => plinkPre = NULL
    /\ pc = "clear" => plinkPre = NULL
    /\ pc # "idle" =>
        \E k \in 1..(Len(order) + 1) :
            /\ plink = IF k = Len(order) + 1 THEN NULL ELSE order[k]
            /\ pc = "remove" =>
                /\ plinkPre = IF k = 1 THEN NULL ELSE order[k - 1]
                /\ \A j \in 1..(k - 1) : data[order[j]] # target

(* listRemoveData returns only when no link of the list stores its argument:
   an event that is listed twice disappears with one call. *)
RemovesEveryOccurrence ==
    [][RemoveReturn => \A k \in DOMAIN order' : data'[order'[k]] # target]_vars

(* listAdd refuses a value only when the list itself holds PoolSize values:
   no sequence of adds and removes leaks a link. *)
RefusesOnlyWhenFull ==
    [][AddFails => Len(order) = PoolSize]_vars

(* The list is a bounded FIFO. *)
Contents == [k \in 1..Len(order) |-> data[order[k]]]
Fifo == INSTANCE EventFifo WITH contents <- Contents, Capacity <- PoolSize
ImplementsFifo == Fifo!Spec

(* listRemoveData and listRemoveAll return. *)
CallsReturn == pc # "idle" ~> pc = "idle"
=============================================================================
