----------------------------- MODULE MCDispatch -----------------------------
EXTENDS Dispatch

CONSTANTS t1, t2, shared

MCHandleOf == [t \in Threads |-> shared]
=============================================================================
