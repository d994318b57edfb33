-------------------------- MODULE MCAddressSpace ---------------------------
(* Small instances: tables of four entries, sixteen frames.                *)
EXTENDS AddressSpace

\* A page of the table that brk and the program use, another top-level entry.
Above == {17, 64}

\* Programs above the identity map; the kernel and mmap's own choices below it.
Above4G == {"brk", "elf", "fixed", "unmap"}
Below4G == {"boot", "heap", "mmap"}
EitherSide == {Above4G, Below4G}

Programs == {<<16, 2>>}

\* Addresses below and above the identity map, on and off page boundaries.
SomeBreaks == {12, 33, 36}
=============================================================================
