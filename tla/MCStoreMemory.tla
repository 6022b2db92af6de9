---------------------------- MODULE MCStoreMemory ----------------------------
(***************************************************************************)
(* An instance of StoreMemory for TLC: writes to a session that exists and *)
(* to one that may not.                                                    *)
(***************************************************************************)
EXTENDS StoreMemory

CONSTANTS Old, New

CallsDef ==
  {[kind |-> "status", session |-> s, applicant |-> NoApplicant,
    status |-> "approved", source |-> "webhook"] : s \in {Old, New}}
=============================================================================
