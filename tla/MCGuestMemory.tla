--------------------------- MODULE MCGuestMemory ---------------------------
(* GuestMemory for TLC: the protections that tell the properties apart. *)
EXTENDS GuestMemory

SomeSizes == {1, 3}
None == {}
OneStore == {3}
OneCopy == {{2, 3}}
RW == {{"R"}, {"R", "W"}}
BothRefusals == {"mmap", "mprotect"}
=============================================================================
