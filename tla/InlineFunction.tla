--------------------------- MODULE InlineFunction ---------------------------
(***************************************************************************)
(* talon::task::InlineFunction (async_io_task.hpp), the type-erased callable *)
(* an AsyncTask keeps its handler in.  A function is its vtable_ (FALSE for  *)
(* null) and the callable object it holds; whether the object lies in        *)
(* storage_ or on the heap makes no difference to who owns it.  Operations   *)
(* take and give the set of callable objects that exist.                     *)
(***************************************************************************)

None == <<>>        \* no callable object

Empty == [vtable |-> FALSE, obj |-> None]

Construct(obj) == [vtable |-> TRUE, obj |-> obj]

Destroy(f, objs) == IF f.vtable THEN objs \ {f.obj} ELSE objs

\* Mutant: the source keeps its vtable_, and destroys what it gave away.
MoveConstructShares(from, objs) == [to |-> from, from |-> from, objs |-> objs]

\* The move constructor: a heap object changes hands; one in storage_ is built
\* anew in the destination and destroyed in the source.  The source is emptied.
MoveConstruct(from, objs) == [to |-> from, from |-> Empty, objs |-> objs]

\* Move assignment: what the function held is destroyed first.
MoveAssign(to, from, objs) == MoveConstruct(from, Destroy(to, objs))

\* operator() follows vtable_ without a test.
Callable(f, objs) == f.vtable /\ f.obj \in objs
=============================================================================
