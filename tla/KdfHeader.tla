------------------------------ MODULE KdfHeader ------------------------------
(***************************************************************************)
(* The Argon2 parameters of a pack's header on their way to Argon2:        *)
(* read_header_kdf (src/src/store.cpp) and derive_key (src/src/crypto.cpp) *)
(* in the arithmetic of uint32_t and size_t.  The header is plain text, so *)
(* it may say anything.                                                    *)
(***************************************************************************)
EXTENDS Integers

CONSTANTS
  Uint32Size, SizeTSize,         \* the values of a uint32_t and of a size_t
  kMaxKdfLanes, kMaxKdfBlocks,
  BlocksPerLane,                 \* what Argon2 needs: 8 blocks for each lane
  BlockBytes                     \* 1024

Uint32 == 0..(Uint32Size - 1)
SizeT == 0..(SizeTSize - 1)

\* The code's limits in the widths of its types.  The largest work area has 2^32
\* bytes, as many as there are values of a size_t of 32 bits.
ASSUME KdfHeaderAssumption ==
  /\ {kMaxKdfLanes, kMaxKdfBlocks, BlocksPerLane, BlockBytes, Uint32Size, SizeTSize} \subseteq Nat \ {0}
  /\ BlocksPerLane * kMaxKdfLanes < Uint32Size
  /\ kMaxKdfBlocks * BlockBytes <= SizeTSize

Kdf == [nb_blocks : Uint32, nb_passes : Uint32, nb_lanes : Uint32]
Header == [whole : BOOLEAN, magic : BOOLEAN, version : BOOLEAN, kdf : Kdf]

VARIABLES
  header,     \* what the file has, if it can be read whole; is its magic, is its version the right one?
  stage,
  work_size   \* the bytes that derive_key allocates

kdfVars == <<header, stage, work_size>>

\* Faulty: the limit on nb_blocks is forgotten.
NoCeiling(k) == k.nb_blocks \in Uint32

LanesInRange(k) == k.nb_lanes # 0 /\ k.nb_lanes <= kMaxKdfLanes

\* The product is of two unsigned ints.
EnoughBlocks(k) == k.nb_blocks >= (BlocksPerLane * k.nb_lanes) % Uint32Size

UnderCeiling(k) == k.nb_blocks <= kMaxKdfBlocks

Accepts(k) == LanesInRange(k) /\ k.nb_passes # 0 /\ EnoughBlocks(k) /\ UnderCeiling(k)

ReadHeaderKdf ==
  /\ stage = "read_header_kdf"
  /\ stage' = IF header.whole /\ header.magic /\ header.version /\ Accepts(header.kdf)
              THEN "derive_key" ELSE "refused"
  /\ UNCHANGED <<header, work_size>>

WorkSize(k) == (k.nb_blocks * BlockBytes) % SizeTSize

\* malloc may fail.
DeriveKey ==
  /\ stage = "derive_key"
  /\ work_size' = WorkSize(header.kdf)
  /\ stage' \in {"crypto_argon2", "refused"}
  /\ UNCHANGED header

KdfInit == header \in Header /\ stage = "read_header_kdf" /\ work_size = 0

KdfNext == ReadHeaderKdf \/ DeriveKey

KdfSpec == KdfInit /\ [][KdfNext]_kdfVars

-----------------------------------------------------------------------------
(* Properties.                                                             *)

\* What Argon2 is defined for.
Defined(k) ==
  /\ k.nb_lanes \in 1..kMaxKdfLanes /\ k.nb_passes >= 1
  /\ k.nb_blocks >= BlocksPerLane * k.nb_lanes

\* Whatever a header says that is read before it can be authenticated, Argon2 is run
\* with parameters it is defined for and with all the memory that they ask for, up
\* to the ceiling of 4 GiB (read_header_kdf's comment, docs/DESIGN.md section 12).
WorkAreaIsWhole ==
  stage = "crypto_argon2" =>
    Defined(header.kdf) /\ work_size = header.kdf.nb_blocks * BlockBytes

\* What read_header_kdf and derive_key do achieve: no header gets less but those at the
\* ceiling, and these only where the ceiling is one byte more than a size_t holds.
OnlyTheCeilingWraps ==
  stage = "crypto_argon2" =>
    LET k == header.kdf IN
    /\ Defined(k)
    /\ \/ work_size = k.nb_blocks * BlockBytes
       \/ k.nb_blocks = kMaxKdfBlocks /\ kMaxKdfBlocks * BlockBytes = SizeTSize
=============================================================================
