------------------------- MODULE DenominationRegistry -------------------------
(***************************************************************************)
(* The denomination registry of the stealth program                       *)
(* (instructions/denomination_registry.rs, state/privacy_pool.rs): one    *)
(* DenominationRegistry PDA [SEED] holding its authority, the Vec of      *)
(* enabled denominations, allow_custom and the min and max bounds.  Each  *)
(* action is one instruction; a failed require! or constraint is a        *)
(* stutter.  The Vec is a sequence: remove_denomination removes the first  *)
(* position that holds the value, as Vec::position and Vec::remove do.    *)
(* Denominations are in units of 0.1 SOL.                                 *)
(***************************************************************************)
EXTENDS Naturals, Sequences
LOCAL INSTANCE SequencesExt

CONSTANTS
    DefaultDenominations,  \* DEFAULT_DENOMINATIONS, a sequence
    DefaultMinDenomination,\* the min set by initialize (0.1 SOL)
    DefaultMaxDenomination,\* the max set by initialize (1000 SOL)
    MaxDenominations,      \* DenominationRegistry::MAX_DENOMINATIONS
    Signers,               \* signers of the registry instructions
    DenomArgs,             \* denomination arguments of add and remove
    MinDenomArgs,          \* min_denomination arguments (u64)
    MaxDenomArgs,          \* max_denomination arguments (u64)
    NoArg                  \* an absent Option argument

ASSUME /\ Len(DefaultDenominations) <= MaxDenominations
       /\ NoArg \notin Nat \cup BOOLEAN

VARIABLE denom_registry   \* the DenominationRegistry account

dvars == <<denom_registry>>

\* Option<T>: the new value if Some, the old one if None.
OptOr(opt, old) == IF opt = NoArg THEN old ELSE opt

DRInit ==
    denom_registry = [initialized |-> FALSE, authority |-> NoArg,
                      enabled_denominations |-> << >>,
                      allow_custom |-> FALSE,
                      min_denomination |-> 0, max_denomination |-> 0]

\* initialize_denomination_registry: init of the PDA by any signer, who
\* becomes its authority, with the defaults and the default bounds.
InitializeDenominationRegistry(s) ==
    /\ ~denom_registry.initialized
    /\ denom_registry' = [initialized |-> TRUE, authority |-> s,
                          enabled_denominations |-> DefaultDenominations,
                          allow_custom |-> FALSE,
                          min_denomination |-> DefaultMinDenomination,
                          max_denomination |-> DefaultMaxDenomination]

\* The UpdateDenominationRegistry accounts: the registry exists and the
\* signer is its authority.
Authorized(s) ==
    denom_registry.initialized /\ s = denom_registry.authority

\* add_denomination pushing when the Vec is full as well.
AddDenominationPastCapacity(s, d) ==
    LET en == denom_registry.enabled_denominations IN
    /\ Authorized(s)
    /\ denom_registry.min_denomination <= d
    /\ d <= denom_registry.max_denomination
    /\ ~Contains(en, d)
    /\ Len(en) <= MaxDenominations
    /\ denom_registry' = [denom_registry EXCEPT
                             !.enabled_denominations = Append(en, d)]

\* add_denomination without the check that the value is not yet present.
AddDenominationTwice(s, d) ==
    LET en == denom_registry.enabled_denominations IN
    /\ Authorized(s)
    /\ denom_registry.min_denomination <= d
    /\ d <= denom_registry.max_denomination
    /\ Len(en) < MaxDenominations
    /\ denom_registry' = [denom_registry EXCEPT
                             !.enabled_denominations = Append(en, d)]

\* add_denomination: within [min, max], not yet present, and the Vec has
\* room; the value is pushed at the end.
AddDenomination(s, d) ==
    LET en == denom_registry.enabled_denominations IN
    /\ Authorized(s)
    /\ denom_registry.min_denomination <= d
    /\ d <= denom_registry.max_denomination
    /\ ~Contains(en, d)
    /\ Len(en) < MaxDenominations
    /\ denom_registry' = [denom_registry EXCEPT
                             !.enabled_denominations = Append(en, d)]

\* remove_denomination: the first position holding the value is removed;
\* InvalidDenomination when there is none.
RemoveDenomination(s, d) ==
    LET en == denom_registry.enabled_denominations IN
    /\ Authorized(s)
    /\ Contains(en, d)
    /\ denom_registry' = [denom_registry EXCEPT
                             !.enabled_denominations = RemoveFirst(en, d)]

\* update_registry_config: each Some argument is applied in turn; a new
\* min must be positive, a new max at least the min as just updated.  Any
\* failure reverts the whole instruction.
UpdateRegistryConfig(s, allow, min, max) ==
    LET newMin == OptOr(min, denom_registry.min_denomination) IN
    /\ Authorized(s)
    /\ min # NoArg => min > 0
    /\ max # NoArg => max >= newMin
    /\ denom_registry' = [denom_registry EXCEPT
                             !.allow_custom = OptOr(allow, @),
                             !.min_denomination = newMin,
                             !.max_denomination = OptOr(max, @)]

\* transfer_registry_authority: any key becomes the authority.
TransferRegistryAuthority(s, n) ==
    /\ Authorized(s)
    /\ denom_registry' = [denom_registry EXCEPT !.authority = n]

DRNext ==
    \/ \E s \in Signers : InitializeDenominationRegistry(s)
    \/ \E s \in Signers, d \in DenomArgs : AddDenomination(s, d)
    \/ \E s \in Signers, d \in DenomArgs : RemoveDenomination(s, d)
    \/ \E s \in Signers, a \in BOOLEAN \cup {NoArg},
          mn \in MinDenomArgs \cup {NoArg}, mx \in MaxDenomArgs \cup {NoArg} :
           UpdateRegistryConfig(s, a, mn, mx)
    \/ \E s, n \in Signers : TransferRegistryAuthority(s, n)

DRSpec == DRInit /\ [][DRNext]_dvars

-----------------------------------------------------------------------------
(* Properties *)

\* The type of the registry; its Vec never holds more than the
\* MAX_DENOMINATIONS entries the account's space was allocated for.
DRTypeOK ==
    /\ denom_registry.initialized \in BOOLEAN
    /\ denom_registry.authority \in Signers \cup {NoArg}
    /\ denom_registry.enabled_denominations \in Seq(Nat)
    /\ Len(denom_registry.enabled_denominations) <= MaxDenominations
    /\ denom_registry.allow_custom \in BOOLEAN
    /\ denom_registry.min_denomination \in Nat
    /\ denom_registry.max_denomination \in Nat

\* A step that shortens the Vec (remove_denomination) disables a
\* denomination: after it, some value that was enabled is no longer in
\* the Vec.  Vec::remove drops only the first match, so this holds only
\* because add_denomination never lets a value in twice, whatever
\* sequence of adds, removes and config changes came before.
RemoveDisablesDenomination ==
    [][Len(denom_registry'.enabled_denominations)
           < Len(denom_registry.enabled_denominations)
       => \E d \in ToSet(denom_registry.enabled_denominations) :
              ~Contains(denom_registry'.enabled_denominations, d)]_dvars
====
