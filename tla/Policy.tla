------------------------------- MODULE Policy -------------------------------
(***************************************************************************)
(* What the guest is given (sandbox/policy.go): ModuleConfig's translation  *)
(* of the options, and the memory limit of RuntimeConfig in Go's signed     *)
(* integers of bounded width.                                               *)
(***************************************************************************)
EXTENDS Integers, Sequences

CONSTANTS
    MaxInt64,         \* 2^63 - 1
    Word32,           \* 2^32
    wasmPageSize,     \* 2^16
    maxMemoryLimitPages   \* 2^16

ASSUME PolicyAssumption ==
    /\ {MaxInt64, Word32, wasmPageSize, maxMemoryLimitPages} \subseteq Nat \ {0}
    /\ maxMemoryLimitPages < Word32
    /\ maxMemoryLimitPages * wasmPageSize <= MaxInt64

\* int64 arithmetic wraps.
AsI64(x) ==
    LET width == 2 * (MaxInt64 + 1)
    IN  ((x + MaxInt64 + 1) % width) - (MaxInt64 + 1)

\* Go's division rounds towards zero.
Quotient(a, b) == IF a < 0 THEN -((-a) \div b) ELSE a \div b

\* Faulty variant: the maximum is left to wazero, which panics beyond it.
PagesUnchecked(bytes, up) ==
    LET pages == Quotient(AsI64(bytes + up), wasmPageSize)
    IN  [err |-> bytes <= 0, pages |-> (pages % Word32)]

\* The whole pages of `bytes', to which `up' is added for an incomplete one.
PagesRounded(bytes, up) ==
    LET pages == Quotient(AsI64(bytes + up), wasmPageSize)
    IN  IF bytes <= 0 \/ pages > maxMemoryLimitPages
        THEN [err |-> TRUE, pages |-> 0]
        ELSE [err |-> FALSE, pages |-> (pages % Word32)]

\* Faulty variant: an incomplete page is dropped.
MemoryLimitPagesFloor(bytes) == PagesRounded(bytes, 0)

\* Bytes to whole pages; the sum wraps for the largest int64 values.
MemoryLimitPages(bytes) == PagesRounded(bytes, wasmPageSize - 1)

\* WithEnv and the mounts of wazero's FSConfig: an entry replaces an earlier
\* one with the same key, where key[i] is that of s[i].
Latest(s, key) ==
    {s[i] : i \in {j \in DOMAIN s : \A k \in DOMAIN s : k > j => key[k] # key[j]}}

\* Without -a random every read fails, and without -a time wazero's own clock
\* only counts calls.  argv[0] is always the same and left out.
ModuleConfig(o) ==
    [args   |-> o.guestArgs,
     env    |-> Latest(o.env, [i \in DOMAIN o.env |-> o.env[i].key]),
     stdio  |-> o.stdio,
     mounts |-> Latest(o.volumes, [i \in DOMAIN o.volumes |-> o.volumes[i].guest]),
     random |-> IF "random" \in o.allow THEN "crypto/rand" ELSE "error",
     clock  |-> IF "time" \in o.allow THEN "real" ELSE "fake"]
=============================================================================
