------------------------------- MODULE MCTakeover -------------------------------
(***************************************************************************)
(* Takeover for TLC, and two claims of the documents that hold only while  *)
(* processes do not overlap: with Exclusive = FALSE TLC refutes both.      *)
(***************************************************************************)
EXTENDS Takeover

\* A heartbeat inside the window protects its owner (ADR-012, INV-LEASE-02).
TimelyOwnerKept ==
  [][disk.lease.beat > aged =>
       disk'.lease.owner \in {disk.lease.owner, Nobody}]_vars

\* The version in the file never goes back, or stays while the record changes.
VersionsGrow == [][disk'.lease.version > disk.lease.version]_disk
================================================================================
