-------------------------- MODULE MCRuntimeReload --------------------------
(* Two documents: one deploys agent p, the other agent d, a name that is   *)
(* also used with RegisterAgent.                                           *)
EXTENDS RuntimeReload

CONSTANTS d, p

TwoDocuments == {{p}, {d}}
AllAttachments == Turns \cup External
AllBuses == 1..MaxGen
=============================================================================
