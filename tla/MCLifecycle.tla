----------------------------- MODULE MCLifecycle -----------------------------
(* Devices with both capabilities, with one of them, and with neither. *)
EXTENDS Lifecycle

MCCapSets == SUBSET {"msix", "msi"}
=============================================================================
