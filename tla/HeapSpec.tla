------------------------------ MODULE HeapSpec ------------------------------
(* What malloc() and free() of src/lib/umalloc.c promise their caller,      *)
(* without the free list: a request is answered by a block of memory the     *)
(* process obtained from sbrk(), disjoint from every block it still holds,   *)
(* with room for the bytes asked for; a block stays as it is until it is     *)
(* given back.                                                               *)
EXTENDS Integers

CONSTANTS HeaderSize,   \* bytes in one allocation unit
          Requests      \* sizes in bytes the program asks for

None == -1

VARIABLES held,    \* blocks the program holds: first unit and length in units
          arena,   \* units that belong to the allocator
          req      \* bytes asked for by the call under way, or None

hvars == <<held, arena, req>>

Units(b) == b.addr .. (b.addr + b.len - 1)

HInit == held = {} /\ arena = {} /\ req = None

Ask(n) == req = None /\ req' = n /\ UNCHANGED <<held, arena>>

(* The answer: the first unit of a block is its header, the rest its bytes. *)
Serve == \E b \in held' :
    /\ req # None
    /\ (b.len - 1) * HeaderSize >= req
    /\ Units(b) \subseteq arena
    /\ \A h \in held : Units(h) \cap Units(b) = {}
    /\ held' = held \cup {b}
    /\ req' = None
    /\ arena' = arena

Refuse == req # None /\ req' = None /\ UNCHANGED <<held, arena>>

Return(b) == req = None /\ held' = held \ {b} /\ UNCHANGED <<arena, req>>

Extend == arena \subseteq arena' /\ UNCHANGED <<held, req>>

HNext == \/ \E n \in Requests : Ask(n)
         \/ Serve
         \/ Refuse
         \/ \E b \in held : Return(b)
         \/ Extend

HSpec == HInit /\ [][HNext]_hvars
=============================================================================
