# Stede protocol: a TLA+ model, model-checked and proved

This directory is a verification project for the Stede protocol: nine Solana
programs, written with Anchor (`programs/` in the repository), that wrap a
stablecoin into a Token-2022 token whose every transfer is checked against
rules its sender chose, and the calls of the client (`sdk/`) that take several
steps. Paths below are relative to the repository root.

Contents: [1 the system](#1-the-system) - [2 how the model relates to the
code](#2-how-the-model-relates-to-the-code) - [3 modules](#3-modules) - [4
runs](#4-runs-what-tlc-checks) - [5 theorems](#5-theorems-what-tlaps-proves) -
[6 disagreements with docs and comments](#6-disagreements-with-docs-and-comments) -
[7 what is not covered](#7-what-is-not-covered) - [8 plan](#8-plan).

## 1 The system

| Part | State it keeps | Operations |
|---|---|---|
| `stede_vault` | a Vault PDA per underlying mint (`admin`, `locked_amount`, `paused`), the vault's token account, the Stede mint with its supply | `initialize_vault`, `initialize_vault_hook`, `wrap`, `unwrap`, `set_paused` |
| `stede_hook` | the extra-account list of each Stede mint | `execute` (called by Token-2022 on every transfer), `initialize_extra_account_meta_list` |
| `stede_rule_daily_limit` | per sender and mint: cap, total spent, slot the window started | `set_limit`, `check_transfer` (writes) |
| `stede_rule_block_handle` | per sender and mint: array of 32 wallets with holes, count | `add_blocked`, `remove_blocked`, `check_transfer` |
| `stede_rule_cooloff` | per sender and mint: threshold, duration, time of the last large transfer | `set_cooloff`, `disable_cooloff`, `check_transfer` (writes) |
| `stede_rule_new_recipient_delay` | per sender and mint: delay; per recipient: time of first contact | `set_slow_send`, `disable_slow_send`, `register_recipient`, `check_transfer` |
| `stede_rule_time_window` | per sender and mint: blocked hours | `set_time_window`, `disable_time_window`, `check_transfer` |
| `stede_rule_friend_gate` | per sender and mint: threshold, friend | `set_friend_gate`, `disable_friend_gate`, `check_transfer` |
| `stede_handle_registry` | a forward PDA per handle (owner, deposit), a reverse PDA per wallet (its handle) | `claim_handle`, `transfer_handle`, `release_handle` |
| `sdk` | none between calls; within one: the resolved owner, what a look-up answered, the built transaction | `transfer`, `previewTransfer`, `buildFriendGateTransfer`, setters, reads |

**Interaction.** A holder asks Token-2022 to transfer Stede tokens. Token-2022
moves them, then calls `execute` with the accounts the extra-account list
names. `execute` calls `check_transfer` of the six rules by CPI, in a fixed
order: daily limit, block list, cool-off, slow send, time window, friend gate.
Two of them write. The first error fails the transaction, which undoes
everything, the movement included. The rules do not know who calls them:
`check_transfer` and `execute` can be called by any transaction. `wrap` mints
and `unwrap` burns; neither passes the hook.

**What is hard.** Rules that write before a later one refuses; calls around the
hook; six waits on two clocks (slots, Unix time) that must line up; lazily
rolled windows; settings changed in the middle of a wait; closing and
recreating an account; an array with holes behind a set's interface; two
families of accounts nobody compares; token movements around the vault;
signatures found by scanning the transaction's instructions; wrap-around hours
and Rust's signed remainder; a client whose every `await` lets the chain move
on. `PROJECT.json` lists each as a hazard at its line.

**What makes each part correct.**

- vault: supply <= locked <= balance whatever else is done with either token;
  every holder can redeem; a pause stops issue and release.
- daily limit: the stored total is what the open window approved; no early
  reset; no lock-out; at most twice the cap in any 24 hours.
- block list: implements a bounded set; refuses exactly what its owner asked to
  block and has not unblocked.
- cool-off: large transfers are kept apart while the rule is on; the timer does
  not go back; a wait ends.
- slow send: a waiting period once over stays over; every contact ripens.
- time window: refuses exactly the hours on the dial; opens every day.
- hook: a transfer is all six rules or nothing; what really moved never exceeds
  what the daily limit has counted; the rules never lock each other out.
- registry: forward and reverse accounts are inverse; a wallet has at most one
  handle; rent and deposit are there, whatever is sent to the accounts'
  addresses; nobody gets poorer except by what they give away.
- client: a preview that asks for the friend hides no other refusal; one that
  approves stays true of the rules until the sender changes them; a transaction
  the friend co-signed is not refused for want of a friend; money
  above the friend gate's threshold moves on two signatures.

## 2 How the model relates to the code

- **A Solana instruction is atomic**, and so is a transaction. An instruction
  that returns an error changes nothing, so only successful calls are steps: a
  `require!`, a failing CPI or a checked operation that overflows is a guard.
  `HookPipeline` drops this for the transfer and models commit and rollback.
- **Accounts.** A PDA is an entry of a function from its seeds; one that does
  not exist is `NoAccount`. Every rule's account is keyed by (sender, mint).
  Mints are independent, so a key is one member of `Keys`, in the hook the
  sender's wallet. `bump`, `sender` and `stede_mint` fields repeat the seeds
  and are left out. So are fees and `claimed_at`, which nothing reads.
- **Opt-in.** `check_transfer` passes if the PDA is missing or empty. The check
  is split in two: `Approves`, what it answers, and `CheckTransfer`, the call
  with what it writes.
- **Clocks.** `slot` and `now` move by `Tick`. Slots advance by one or more;
  Unix time may stand still between blocks but never goes back. `Epoch` stands
  for a real Unix time, far above any duration; the cool-off needs that, as it
  stores 0 for "no large transfer yet".
- **Integers.** A `u64` overflow is a guard (`checked_add`) or kept from
  happening by an invariant that TypeOK states (`saturating_sub`). `MaxU64` is
  small in the runs, so that the bound is met.
- **Names** are records of what `validate_handle` distinguishes: length, a
  leading digit, allowed characters, reserved.
- **Transactions** are the wallets that signed plus, per top-level instruction,
  the wallets it names: that is what the friend gate reads from the Instructions
  sysvar.
- **The client** moves between its awaits (`Resolve`, `LookUp`, `Build`,
  `Simulate`, `Cosign`, `Submit`), and everybody else's transactions in
  between. `Return` is every way a call ends without an effect: an RPC error,
  an exception, a refused, expired or unsigned transaction. A preview catches
  its exceptions and explains them like a failed simulation. Logs are the set of
  names they hold, and `classifyRefusal` scans them in its order. Slow send and the
  friend gate are the modules of the programs; what the token program and the
  other four rules answer is any answer (`Obstacles`).
- **External.** `DirectDeposit`, `DirectBurn`, `StedeTransfer`,
  `SendToForward`, `SendToReverse`, `Tick`, `OpenOrClose`, `Cosign` and the token side of
  `Transfer` are behaviour of the token, system and clock programs and of
  people, marked external in the map. The
  underlying mint is a plain one: what is sent arrives.
- **Faulty variants** next to a definition (each introduced as one) are never
  part of a specification. They show what a property would catch.

## 3 Modules

| Module | Models |
|---|---|
| `Vault` | `stede_vault` and what holders do around it |
| `DailyLimit`, `DailyLimitAudit` | the cap; the same with a history of approvals |
| `BlockSet`, `BlockList`, `BlockListAudit` | a bounded set per sender; the array that implements it; the same with a history of what each sender asked for |
| `Cooloff`, `CooloffAudit` | the cool-off; the same with a history |
| `SlowSend` | `stede_rule_new_recipient_delay` |
| `TimeWindow` | the blocked hours |
| `FriendGate` | the co-signature |
| `StedeHook` | INSTANCEs the six rules; a transfer is one step |
| `HookAudit` | `StedeHook` with a history of what moved |
| `HookPipeline` | the transfer taken apart: token movement, six calls, commit, abort |
| `HandleDirectory`, `HandleRegistry` | what the registry promises; the accounts that keep it |
| `SdkClient` | the client's multi-step calls, over slow send (EXTENDS) and the friend gate (INSTANCE) |
| `MCVault`, `MCHook`, `MCTimeWindow`, `MCPipeline`, `MCHandleRegistry` | constants for the runs |
| `VaultProofs`, `DailyLimitProofs`, `BlockListProofs`, `CooloffProofs`, `SdkClientProofs` (slow send and the client over it), `HandleRegistryProofs`, `HookProofs` (the hook, the pipeline and the time window) | theorems |
| `FunctionSums` | lemmas about sums over finite sets |

An action is named for its instruction (`set_limit` is `SetLimit`). Variables
are named for the account they hold. `Audit` modules add history variables
that no action reads: `approved`, `peak`, `asked`, `passed`, `settled` and so on.

`StedeHook` assumes of its constants what each rule assumes of its own
(`RulesAssumption`), so that theorems about a rule carry over.

Three refinements relate levels: `BlockList => BlockSet` (the occupied slots
are the set), `HandleRegistry => HandleDirectory` (the forward accounts alone,
although only the reverse accounts enforce one handle per wallet) and
`HookPipeline => StedeHook` (what is committed, while the programs see what is
being written).

**Whose rules apply.** `execute` derives the rules' PDAs from account 3, the
transfer's authority. A delegate approved at Token-2022 therefore runs under
rules of its own, not the owner's. `StedeHook` models it so (`Delegates`), and
its properties speak of the authority.

## 4 Runs: what TLC checks

| Run | Module, cfg | Checks | Distinct states |
|---|---|---|---|
| `vault` | MCVault | Solvent, EveryHolderRedeemable, LockedMovesInLockstep, PauseStopsTheVault | 2,661 |
| `daily_limit` | DailyLimitAudit, MCDailyLimit.cfg | TypeOK, SpentIsWindowTotal, AtMostTwiceTheCapInADay, NoEarlyReset, NoSpendAboveCap, WithinCapIsAdmissible | 71,964 |
| `block_list` | BlockListAudit, MCBlockList.cfg | TypeOK, NoDuplicates, CountIsOccupancy, RefusesExactlyTheBlocked, ImplementsBlockSet | 5,476 |
| `cooloff` | CooloffAudit, MCCooloff.cfg | TypeOK, LargeTransfersSpaced, CooloffEnds | 96,332 |
| `client` | SdkClient, MCClient.cfg | ClientTypeOK, FriendIsAllThatIsMissing, CosignedPassesTheGate, TwoSignatures, ApprovalsLast, and of slow send under it: RipeStaysRipe, EveryContactRipens | 220,320 |
| `time_window` | MCTimeWindow (the hook with no other rule set) | RefusedExactlyWithin, OpensEveryDay | 9,464 |
| `hook` | MCHook | TypeOK, SettledWithinSpent, OpensTogether | 389,640 |
| `hook_pipeline` | MCPipeline | PipeTypeOK, ImplementsHook | 407,108 |
| `handle_registry` | MCHandleRegistry | TypeOK, ForwardMatchesReverse, OwnedIsFunded, LossesAreGifts, ImplementsDirectory | 44,685 |
| `rolling_day`, `new_recipient`, `vault_equality` | see section 6 | one statement of a doc or comment each, refuted | |

Run one with `tlc -config MCHook.cfg MCHook`. The comment over a property says
what it means and which behaviour of the code it is about.

**Bounds, and why they are enough.**

- *vault*: three interchangeable users with two units each (symmetry is used;
  the run has no liveness property). Interference takes two users, and a third
  can pay or be paid. `MaxU64` is the total endowment, so the `u64` checks are
  evaluated at their limit; they cannot be passed, since nobody mints the
  underlying.
- *daily limit*: one sender (keys do not share state), days of three slots and
  nearly three of them: two rolls and a day that straddles one. Caps 1 and 3
  can be raised and lowered within a window, and 3 is `MaxU64`.
- *block list*: three slots for four wallets, so the list can be full with a
  wallet left out, and holes appear before, between and after entries; two
  keys, for interference.
- *cool-off*: durations 1 and 3 (the largest allowed) and the values just out
  of range, six seconds. A wait of either length starts and ends twice. At
  most three checks are recorded between two disablings; a violation of the
  spacing needs two.
- *client*: two recipients and two possible friends, so that recipient and
  friend can each change while a call is under way; one call at a time, since
  the client keeps nothing between calls and everybody else's transactions are
  there. One amount, a threshold at it and one above it (0, which is refused, besides); obstacles asked
  before and after slow send, one of each way to fail. For slow send: delays 1
  and 2 and just out of range, and three seconds, enough for a contact to ripen
  and for the delay to change before and after. What a preview says is
  evaluated at every reachable state, for every recipient with an account and
  every set of obstacles.
- *time window*: all windows of a day of five hours of two seconds, over two and
  a half days, as settings under the hook; what the window answers does not
  depend on the other rules, which stay unset. Wrapped, empty and one-hour
  windows all occur; that nothing
  depends on 24 or 3600 is proved (section 5).
- *hook*: a sender, its delegate, a payee and a friend; one value per setting
  and amounts on both sides of every threshold; three transactions: friend
  named before the transfer, friend named after it, delegate alone. Three
  slots of days of two cross one roll; three seconds cover every wait.
  `OpensTogether` is evaluated at every reachable state, for every future
  moment up to the longest wait plus a day; those moments are computed and need
  not be reachable within the bound.
- *pipeline*: as the hook, without a delegate, with the payee as a possible
  friend, and with a shorter history, since every transfer takes up to eight
  steps.
- *handle registry*: three wallets; one can afford a claim and to spare, one
  exactly a claim, one only a gift. Gifts of one lamport, so that several make up
  a rent and more, reach the forward address of a good name and the reverse
  addresses of two wallets, before the claim and after. Two good names, and one
  bad in each way. `CHECK_DEADLOCK FALSE`: once all lamports have been sent to
  addresses nobody can claim, no call can succeed.

Every other run checks deadlock: some call is always possible.

**Fairness.** The only assumption is `WF(Tick)`: the chain goes on producing
blocks, and time moves. It is stated in the runs with `~>` properties
(`daily_limit`, `cooloff`, `client`, `time_window`). No user, relayer or
admin is assumed to do anything, so the properties say that a transfer *becomes
admissible*, not that somebody sends it. As the model's clock stops at
`MaxSlot` or `MaxTime`, each such property starts only where the longest wait
still fits below the bound. In the hook, where no behaviour is assumed fair,
the same question is a state predicate: `OpensTogether`.

## 5 Theorems: what TLAPS proves

For every value of the constants that satisfies the module's ASSUME: any number
of users, keys and names (of users a finite one, since sums are taken over
them), any amounts, any length of a day.

| Module | Theorem | Says |
|---|---|---|
| `VaultProofs` | `TypeCorrect` | `Spec => []TypeOK` |
| | `Backed` | `Spec => []Solvent` |
| | `Lockstep`, `PauseHolds` | the two action properties |
| | `HoldersOwnTheSupply` | `Spec => [](SumFunction(stede) = stede_supply)` |
| | `Redeemable` | `Spec => []EveryHolderRedeemable` |
| `DailyLimitProofs` | `TypeCorrect` | `Spec => []TypeOK`: no stored total above `u64`, no window in the future |
| | `NoEarlyResetHolds`, `NoSpendAboveCapHolds` | the two action properties |
| | `SpentIsTheWindowsTotal`, `TwiceTheCapIsTheMost` | `AuditSpec => []SpentIsWindowTotal`, `AuditSpec => []AtMostTwiceTheCapInADay` |
| `BlockListProofs` | `TypeCorrect`, `NoDuplicatesHold`, `CountIsRight` | three invariants, for an array of any length |
| | `RefusalIsExact` | `AuditSpec => []RefusesExactlyTheBlocked` |
| | `Refinement` | `Spec => ImplementsBlockSet` |
| `CooloffProofs` | `TypeCorrect`, `TimerNeverMovesBackHolds` | `Spec => []TypeOK`, `Spec => TimerNeverMovesBack` (not run: proved outright) |
| | `LargeTransfersStaySpaced` | `AuditSpec => []LargeTransfersSpaced` |
| `SdkClientProofs` | `TypeCorrect`, `RipeStaysRipeHolds` | of slow send: `Spec => []TypeOK`, `Spec => RipeStaysRipe` |
| | `ClientTypeCorrect` | `ClientSpec => []ClientTypeOK` |
| | `TwoSignaturesHold`, `CosignedAlwaysPasses` | `ClientSpec => TwoSignatures`, `ClientSpec => []CosignedPassesTheGate` |
| | `ApprovalsHold`, `OnlyTheFriendIsMissing` | `ClientSpec => ApprovalsLast`, `ClientSpec => []FriendIsAllThatIsMissing` |
| `HandleRegistryProofs` | `TypeCorrect`, `Lockstep`, `Funded` | `[]TypeOK`, `[]ForwardMatchesReverse`, `[]OwnedIsFunded` |
| | `OnlyGiftsCost` | `Spec => LossesAreGifts` |
| | `Refinement` | `Spec => ImplementsDirectory` |
| `HookProofs` | `RulesUnderHook` | `Spec` of the hook implies `Spec` of each of the six rules |
| | `HourOfAnyTime` | `HourOf(t)` is the hour of the day for every integer, the negative ones with Rust's signed remainder included |
| | `RefusalIsExact` | `Spec => []RefusedExactlyWithin`, for the time window under the hook |
| | `TypeCorrect` | `Spec => []TypeOK` for the hook over its rules |
| | `PipelineImplementsHook` | `PipeSpec => ImplementsHook`: asked call by call, with commit and rollback, a transfer is one atomic step or none |
| | `PipeTypeCorrect` | `PipeSpec => []PipeTypeOK`: the types also hold halfway through a transfer and after one that fails |
| | `SettledStaysWithinSpent` | `AuditSpec => []SettledWithinSpent` |
| | `RulesOpenTogether` | `Spec => []OpensTogether`: the waits of the six rules always end together |

**From which assumptions.** Those each module names: for a rule, that its
constants are numbers and `NoAccount` is not among them; for the hook,
`StedeHookAssumption` and `RulesAssumption`; for the pipeline also
`HookPipelineAssumption`, that "no call" is not a call; for the client
`SdkClientAssumption`, that friends are others and obstacles are known; for `RulesOpenTogether`
`FriendsCanSign`, that whoever may be named as a friend signs some transaction
that names them. `Users` is finite for the sake of the sums over it: keys are 32
bytes. TLC evaluates them all in the runs.

**The arguments.** A step is split into the actions of Next, with one proof step
per action.

- *Vault.* `TypeOK /\ Solvent` is inductive: `Solvent` alone does not say that
  the amounts are numbers, and `TypeOK` needs `Solvent` nowhere. A burn by a
  holder lowers the left end of supply <= locked <= balance, a deposit raises
  the right one, wrap and unwrap move all three. The action properties follow
  from `TypeOK`.
- *Sums.* The library's induction over finite sets takes the predicate as a
  parameter, which the provers cannot instantiate. `FunctionSums` does without:
  if a statement fails for some subset, it fails for one whose strict subsets
  are all right (`MinimalMember`, since the strict subsets of a finite set are
  well-founded), and taking one member away contradicts that. So the library's
  fold unfolds (`SumUnfolds`), its result does not depend on the order in which
  it picks members (`SumTakesOut`), and a payment changes a sum by what is paid
  (`SumAdd`, `SumTake`, `SumMove`). `HoldersOwnTheSupply` is then inductive and,
  with `Solvent`, gives `EveryHolderRedeemable`.
- *Daily limit.* `TypeOK` is inductive because it bounds `window_start_slot` by
  the current slot: that makes the roll's condition a real distance. A check
  writes a total that has passed the cap's comparison, hence is in range.
  `NoEarlyReset` and `NoSpendAboveCap` follow from `TypeOK` step by step. The
  audit keeps, per slot, the total approved in it *or later*: what a stretch of
  slots saw is then a difference of two entries and no sum has to be taken.
  `RecordInv` says how account and record go together: the stored total is the
  record's entry at the window's start; nothing is recorded a day after that
  start or later, since that approval would have rolled the window; and the day
  before the start saw at most one highest cap. The next approval finds in its
  day at most the rest of the previous window's allowance and the open one's.
- *Block list.* The invariant (`Sound`) joins the type, the absence of
  duplicates and the count. Type and count are not inductive alone: the count stays in
  range because it is the number of occupied slots, and a removal clears one
  slot and takes away one wallet because there are no duplicates. Stored
  wallets and occupied slots are in bijection, hence a free slot means that the
  set is below its bound, and the abstract addition is enabled. `RefusalIsExact`
  compares the array with the history of calls: `Recorded` says that what was
  asked is what is stored, which an addition and a removal keep because each
  changes the one slot it found.
- *Cool-off.* `LargeTransfersSpaced` speaks of the history alone and is not
  inductive. `TimerCovers` connects it with the account: the threshold in force
  is at most the highest on record, the duration at least the shortest, and the
  timer is not behind any recorded transfer that was large throughout. Then the
  wait the next large transfer has passed was measured from a time no earlier
  than all of those.
- *Slow send.* `TypeOK` (contacts are not from the future) and the guard of the
  registration, which finds no contact, give `RipeStaysRipe` directly.
- *Client.* Under the client the friend gate keeps its type, and with it that
  no wallet is its own friend; a transfer above the threshold lands only if the
  friend on record is among the signers, who is then somebody else
  (`TwoSignatures`). The carrier is the instruction before the transfer, whether
  the account's creation comes first or not, so the scan for signers meets it
  (`CarrierIsSeen`). When a preview asks for the friend: the rule found in the
  logs is the first in `Asked` that refuses (`ScanFinds`, `FirstIsNamed`); the
  friend gate is the last, so it alone refuses, and the carrier satisfies it.
  An approval lasts because slow send begins to refuse only when a delay is set
  (`ApprovesStep`, from `RipeStep`) and the friend gate's account changes only
  by its two setters, one of which removes it.
- *Time window.* The lemmas establish remainders and quotients from division
  with remainder; the code's doubled remainder is then the usual modulus, and
  its two comparisons, with or without the wrap, are one interval clockwise
  from `start_hour`. For a state predicate, `RefusalIsExact` needs only the window's
  `TypeOK`: the stored hours are hours of the dial.
- *Registry.* `ForwardMatchesReverse` is inductive with `TypeOK`: a claim needs
  both entries empty and fills both, a release finds, by the invariant, the
  reverse entry of its own handle although the code does not compare it, a
  transfer empties one reverse entry and fills an empty one. `Funded` and the
  refinement rest on it: a wallet whose reverse account is missing owns no
  handle. So does `OnlyGiftsCost`, where it tells which forward account's
  lamports a wallet may count as its own.

- *Hook.* Each action of the hook is an action of a rule or leaves its
  accounts alone; a transfer is a `CheckTransfer` of each, a direct call of one.
  So every behaviour of the hook is one of each rule, with direct calls and
  delegates, and every theorem about a rule's `Spec` holds under the hook. Its
  `TypeOK` is put together that way, from the theorems of the rules; slow send, the
  friend gate's accounts and the balances have a step of their own.
- *Pipeline.* The refinement maps the hook's accounts to `committed`. That is
  not enough to prove a commit: why would the written accounts be those of an
  atomic transfer, and why would all six rules pass, when they were asked one
  after the other, on accounts the earlier ones had changed? The invariant
  `PInv` says: between calls the programs see what is committed; during a call
  the balances have moved, each stage stands for the rules asked so far having
  passed *on the committed accounts*, and exactly the two that write have
  written, once asked. It holds on because no rule reads what another writes
  (their PDAs differ by program) and because nothing else runs within a
  transaction. A commit then is the atomic `Transfer`, an abort changes nothing
  that is committed, and every other step of the pipeline is a stutter or the
  hook's own.
- *Types halfway.* `TypeOK` is not inductive over the pipeline: an abort writes
  back what was committed, whose types have to be known too. `Halfway` adds
  them, for the accounts that a transfer writes. No bound gets tighter or looser
  meanwhile, since the clock stands still within a transaction. The rules that
  are only read take the steps of their own specifications, as in the hook.

- *Settled within spent.* The record of what moved has the same form. When a
  window rolls it starts at the current slot, which must not have moved anything
  before; `SettledInv` says so, again because a transfer a day after the
  window's start would itself have rolled it. A direct call of a check raises
  the total alone, a transfer both alike.
- *Opening together.* At any moment at least as far off as the longest of the
  three waits, the daily window has rolled, and cool-off and slow send have run
  out: that follows from `TypeOK`, whose bounds keep all stored times out of the
  future. Such moments stay good, so it is enough that the blocked hours end at
  one of them; the full hour `end_hour` comes within a day of any moment
  (`HourComes`, arithmetic of remainders), and at that hour no window is
  closed. The friend on record can sign (`FriendsKnown`, an invariant).

Check them with `tlapm VaultProofs.tla` and so on; `HookProofs` uses the
theorems of three others by INSTANCE.

**Only model-checked.** Liveness (`WithinCapIsAdmissible`, `CooloffEnds`,
`EveryContactRipens`, `OpensEveryDay`): fairness and ENABLED are beyond the
prover. Every invariant and every action property that a run checks is also
proved. What the proofs show of these four is their safety side, in
`RulesOpenTogether`: the moments at which a transfer is admissible exist and come
within the longest wait and a day.

## 6 Disagreements with docs and comments

Three statements are refuted by a run:

- `rolling_day`: `sdk/README.md:211` describes the daily limit as a rolling
  24-hour window. The code keeps a tumbling one
  (`programs/stede_rule_daily_limit/src/instructions/check_transfer.rs:51`): a
  full cap just before a roll and another just after it pass within 24 hours.
  `AtMostTwiceTheCapInADay` shows that it is never more than that.
- `new_recipient`: `sdk/README.md:130` says that for a recipient without a
  Stede account the SDK creates it in a separate confirmed transaction before
  building the transfer. `transfer` (`sdk/src/client.ts:567`) puts the creation
  into the transaction of the transfer and builds that at once. The address of
  the slow-send contact comes from the owner written in the recipient's account
  (`initialize_extra_account_meta_list.rs:148`), which does not exist yet, so
  the call throws: the run's counterexample resolves the handle, sees that the
  account is missing and throws in `Build`. Were the account opened by somebody
  else in between, the creation in the transaction would fail (`Lands`).
  `buildFriendGateTransfer` does the same.
- `vault_equality`: `programs/stede_vault/src/state.rs:27` states
  `token_vault.balance == locked_amount == stede_mint.supply`. A deposit into
  the vault's token account or a burn by a holder breaks the equality and
  leaves the inequality `Solvent`, which is what redemption needs.

Noted while reading, without a run:

- `sdk/README.md:134` lists three outcomes of a preview. For a handle that nobody
  owns there is a fourth, neither approved nor refused nor an error
  (`sdk/src/client.ts:607`; `Unclaimed`, one of the `Answers`).
- `sdk/README.md:250` calls registering a recipient a way to bypass the delay.
  Registration starts the wait; only `register_recipient` at least
  `delay_seconds` ago lets a transfer pass (`Ripe`).
- `programs/stede_vault/src/state.rs:11` says that the admin is transferred to a
  multisig later. No instruction changes the admin and no action of `Vault`
  does; no property is made of that.
- `sdk/README.md:99` says that funds are always redeemable. A paused vault
  refuses `unwrap` as well as `wrap`; `EveryHolderRedeemable` says that the
  backing is there, `PauseStopsTheVault` that it cannot be taken meanwhile.
- `set_cooloff.rs:47` says users cannot reset the cool-off by reconfiguring the
  rule. `set_cooloff` preserves the timer, but `disable_cooloff` (line 12)
  closes the account and the next `set_cooloff` starts from zero; so
  `LargeTransfersSpaced` speaks of the time since the rule was last off.
- `resolveHandle` and the reads behind `getRulesForSender` answer "not claimed"
  and "not set" for every failure, a failed RPC request included.
- `README.md:45` says the cool-off delays withdrawals by up to 7 days. The code
  caps the duration at 24 hours, and `unwrap` is not a transfer: no rule sees it.
- `README.md:46` speaks of a 10-minute hold; the delay is the sender's choice.
- `README.md:47` speaks of local hours; the program reads UTC.
- `README.md:48` calls the friend gate block-only; co-signing works on chain.
- The friend gate's comment (`check_transfer.rs:63`) has the friend sign
  "somewhere in this transaction"; only the instructions up to the one being
  executed are scanned, so a friend whom only a later instruction names is not
  seen (`SignersSeen`).
- `spent_today` (daily limit, `state.rs:20`) is documented as what has been
  transferred; direct calls of `check_transfer` add to it without a transfer.
  `SettledWithinSpent` is the direction that holds.

## 7 What is not covered

- `sdk/`: address derivation and encoding are pure, the reads keep nothing,
  `wrap`, `unwrap` and the setters send one transaction each, whose effect is
  an action of the program's module. Two hazards have no property because the
  code makes no promise to hold it to: a handle that changes its owner between
  resolving and landing (nothing compares the two), and sending again after a
  timeout (nothing records what was sent).
- The lamports of the extra-account list's address: its creation fails if the
  address already holds some; the model knows only whether the list exists.
- `tests/`, build and deployment files: no behaviour of the system.
- Account discriminators, space and the byte offsets at which rules read
  foreign accounts: layout, taken as correct. Seeds and program-id constraints
  are what makes an entry of a function *the* account.
- A transfer from an account to itself: Token-2022 returns before it calls a
  hook, so there is none in the model.
- Upgrades of a program, transfer fees of an underlying mint, forks of the
  chain.

## 8 Plan

Done, most important first: vault; daily limit; block list; cool-off; slow send;
time window and friend gate; hook over the rules; pipeline; registry; the rules
proved to run under the hook as they do alone; the pipeline proved to implement
the hook; the client, its previews and its signatures proved; the daily totals
and the waiting times proved; the sums over holders and the types
halfway through a transfer proved.

Left, in this order:

1. *Friend gate on its own*, over transactions of several transfers.
