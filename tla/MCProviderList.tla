----------------------------- MODULE MCProviderList -----------------------------
(* Two providers, ids for six more, and a file that brings a new provider
   and one of the two again: a delete, a duplicate or an import changes the
   list under a reorder, a drag or an open form. *)
EXTENDS ProviderList

CONSTANTS p1, p2, p3, p4, p5, p6, p7, p8, p9

MCFirst == <<p1, p2>>
MCFresh == <<p3, p4, p5, p6, p8, p9>>
MCFile == <<p7, p2>>
MCOtherEdits == {"delete", "activate"}
=================================================================================
