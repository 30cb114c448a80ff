---------------------------- MODULE MCKAllocator ----------------------------
(* An instance of KAllocator for TLC: pages of 4 bytes, blocks of 2 and 4 *)
(* bytes; the bitmaps have more bits than a page has blocks, as for the    *)
(* 1024 and 2048 byte classes of the code.                                 *)
EXTENDS KAllocator

L(s, a) == [size |-> s, align |-> a]

Blocks == <<2, 4>>
Bitmaps == <<3, 2>>

(* A small layout, one that needs the larger class for its alignment only, *)
(* a request of two pages and an alignment that is refused.                *)
Layouts == {L(2, 2), L(1, 4), L(5, 4), L(1, 8)}
=============================================================================
