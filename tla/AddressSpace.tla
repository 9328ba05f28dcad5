---------------------------- MODULE AddressSpace ----------------------------
(***************************************************************************)
(* What a memory::PageMap promises when every mapping is 4 KiB             *)
(* (kernel/arch/amd64/memory/paging.cpp): a partial function from virtual  *)
(* pages to physical frames that changes only by serving, one page at a    *)
(* time, what a caller asked for one of its own pages.  No table in sight. *)
(***************************************************************************)
CONSTANTS Callers,
          Pages,        \* virtual pages
          Owner,        \* the caller that owns each page that may be mapped
          FrameOwner,   \* and the one that owns each frame
          None          \* no frame

VARIABLES space,        \* the frame the processor uses for each page
          hidden,       \* the frame kept by a page that is not readable
          request       \* what each caller is having done

vars == <<space, hidden, request>>

\* A page and the frames it may get: one, unless the caller takes any.
NoRequest == [op |-> "none", page |-> None, frames |-> {}, readable |-> TRUE]
Requests ==
    [op : {"map", "unmap", "setflags", "lookup"}, page : DOMAIN Owner,
     frames : SUBSET DOMAIN FrameOwner, readable : BOOLEAN]

\* Callers ask for their own pages and give their own frames.
Mine(t, r) ==
    \/ r = NoRequest
    \/ /\ r \in Requests
       /\ Owner[r.page] = t
       /\ r.op = "map" => \A f \in r.frames : FrameOwner[f] = t

Init ==
    /\ space = [v \in Pages |-> None]
    /\ hidden = [v \in Pages |-> None]
    /\ request = [t \in Callers |-> NoRequest]

\* The caller goes on to its next request, and nobody else does.
GoOn(t) ==
    \E r \in {request'[t]} : Mine(t, r) /\ request' = [request EXCEPT ![t] = r]

Ask(t) ==
    /\ GoOn(t)
    /\ UNCHANGED <<space, hidden>>

\* The page of t's request gets `shown` for the processor and keeps `behind`.
Put(t, shown, behind) ==
    /\ space' = [space EXCEPT ![request[t].page] = shown]
    /\ hidden' = [hidden EXCEPT ![request[t].page] = behind]

Map(t) ==
    /\ request[t].op = "map"
    /\ \E f \in request[t].frames : Put(t, f, None)
    /\ GoOn(t)

Unmap(t) ==
    /\ request[t].op = "unmap"
    /\ Put(t, None, None)
    /\ GoOn(t)

\* The page keeps its frame, readable or not.
SetFlags(t) ==
    /\ request[t].op = "setflags"
    /\ \E f \in {space[request[t].page], hidden[request[t].page]} \ {None} :
          IF request[t].readable THEN Put(t, f, None) ELSE Put(t, None, f)
    /\ GoOn(t)

Next == \E t \in Callers : Ask(t) \/ Map(t) \/ Unmap(t) \/ SetFlags(t)

Spec == Init /\ [][Next]_vars
=============================================================================
