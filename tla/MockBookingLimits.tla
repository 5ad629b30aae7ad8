-------------------------- MODULE MockBookingLimits --------------------------
(***************************************************************************)
(* The settings that both stores of the mock provider are built with       *)
(* (mock_slot_capacity, mock_slot_idle_ttl, ... of Settings), shared by    *)
(* MockBooking and MockBookingRedis.                                       *)
(***************************************************************************)
EXTENDS Naturals, Sequences, FiniteSets

CONSTANTS None,                 \* no entry
          Capacity,             \* published slots the store may hold
          IdleTTL, PinTTL, Retention,
          BatchSize,            \* of a cleanup pass
          Skew                  \* how old a caller's clock reading may be
=============================================================================
