------------------------------ MODULE BtcRelay ------------------------------
(***************************************************************************)
(* The Bitcoin light client (crates/btc-relay): anyone submits block       *)
(* headers; they are kept in chains, of which chain 0 is the main chain,   *)
(* and a fork that is Confirmations ahead of it takes its place.  The      *)
(* other pallets ask whether a block is confirmed and how high the main    *)
(* chain is.                                                               *)
(*                                                                         *)
(* A header's hash is its number in the order of arrival, 0 standing for   *)
(* none: hashes are only compared, and a header that is stored already is  *)
(* refused.  Submitted headers carry the proof of work they claim.         *)
(***************************************************************************)
EXTENDS Security, Sequences

CONSTANTS Confirmations,             \* StableBitcoinConfirmations
          ParachainConfirmations,    \* StableParachainConfirmations
          BlocksPerBitcoinBlock,     \* ParachainBlocksPerBitcoinBlock
          Interval,                  \* DIFFICULTY_ADJUSTMENT_INTERVAL
          TargetTimespan, MaxTarget,
          CompactBase, CompactLimit, \* base and bound of a compact mantissa
          StartHeights,              \* heights the relay may start at
          Timestamps, Targets,       \* what submitted headers may contain
          Periods,                   \* request periods
          MaxHeaders                 \* bound: number of headers

ASSUME RelayAssumption ==
    /\ Confirmations \in Nat \ {0}
    /\ ParachainConfirmations \in Nat
    /\ BlocksPerBitcoinBlock \in Nat \ {0}
    /\ Interval \in Nat \ {0}
    /\ TargetTimespan \in Nat \ {0}
    /\ MaxTarget \in Nat
    /\ CompactBase \in Nat \ {0, 1}
    /\ CompactLimit \in Nat \ {0}
    /\ StartHeights \subseteq Nat
    /\ Timestamps \subseteq Nat
    /\ Targets \subseteq Nat
    /\ Periods \subseteq Nat
    /\ MaxHeaders \in Nat

VARIABLES relay, StartBlockHeight,
          DisableDifficultyCheck     \* set at genesis

relayVars == <<relay, StartBlockHeight, DisableDifficultyCheck>>
vars == <<relayVars, securityVars>>

-----------------------------------------------------------------------------
(* State                                                                   *)

MAIN_CHAIN_ID == 0

RichBlockHeader == [prev : Nat, timestamp : Timestamps, target : Targets,
                    block_height : Nat, chain_id : Nat, para_height : Nat]

BlockChain == [start_height : Nat, max_height : Nat]

(* Chains lists chain ids by position, ChainsIndex has a chain by its id,  *)
(* ChainsHashes a header by chain id and height.                           *)
TypeOK ==
    LET ids == 0 .. relay.ChainCounter - 1 IN
    /\ SecurityTypeOK
    /\ StartBlockHeight \in Nat
    /\ DisableDifficultyCheck \in BOOLEAN
    /\ relay.BlockHeaders \in Seq(RichBlockHeader)
    /\ relay.ChainCounter \in Nat
    /\ relay.Chains \in [ids -> ids]
    /\ relay.ChainsIndex \in [ids -> BlockChain]
    /\ DOMAIN relay.ChainsHashes \subseteq ids \X Nat
    /\ \A k \in DOMAIN relay.ChainsHashes : relay.ChainsHashes[k] \in DOMAIN relay.BlockHeaders
    /\ relay.BestBlock \in {0} \cup DOMAIN relay.BlockHeaders
    /\ relay.BestBlockHeight \in Nat

Empty == [x \in {} |-> 0]

Init ==
    /\ SecurityInit
    /\ StartBlockHeight = 0
    /\ DisableDifficultyCheck \in BOOLEAN
    /\ relay = [BlockHeaders |-> << >>, ChainCounter |-> 0, Chains |-> Empty,
                ChainsIndex |-> Empty, ChainsHashes |-> Empty,
                BestBlock |-> 0, BestBlockHeight |-> 0]

best_block_exists == relay.BestBlock # 0

max_height(r, id) == r.ChainsIndex[id].max_height

(* A map with one more, or a changed, entry.                               *)
insert(map, key, value) ==
    [k \in DOMAIN map \cup {key} |-> IF k = key THEN value ELSE map[k]]

-----------------------------------------------------------------------------
(* Difficulty                                                              *)

(* get_compact followed by set_compact: a target keeps the digits of its   *)
(* mantissa.                                                               *)
compact(target) ==
    LET shift == CHOOSE e \in 0 .. target :
                    /\ target \div CompactBase ^ e < CompactLimit
                    /\ \A d \in 0 .. e - 1 : target \div CompactBase ^ d >= CompactLimit
    IN  (target \div CompactBase ^ shift) * CompactBase ^ shift

calculate_next_work_required(previous_target, first_block_time, last_block_time) ==
    LET elapsed == IF first_block_time <= last_block_time
                   THEN last_block_time - first_block_time ELSE 0
        shortest == TargetTimespan \div 4
        longest == TargetTimespan * 4
        actual_timespan == IF elapsed < shortest THEN shortest
                           ELSE IF elapsed > longest THEN longest ELSE elapsed
        target == (previous_target * actual_timespan) \div TargetTimespan
    IN  compact(IF target > MaxTarget THEN MaxTarget ELSE target)

(* Mutant: the main chain is asked, whatever chain the header is on.       *)
get_last_retarget_time_main(r, chain_id, block_height) ==
    {r.BlockHeaders[r.ChainsHashes[k]].timestamp :
        k \in DOMAIN r.ChainsHashes \cap {<<MAIN_CHAIN_ID, block_height - Interval>>}}

(* The time of the first block of the period, looked up by height in the   *)
(* chain of the previous header; an error if that chain has none there.    *)
get_last_retarget_time(r, chain_id, block_height) ==
    {r.BlockHeaders[r.ChainsHashes[k]].timestamp :
        k \in DOMAIN r.ChainsHashes \cap {<<chain_id, block_height - Interval>>}}

starts_period(block_height) == block_height >= Interval /\ block_height % Interval = 0

expected_target(r, prev, block_height) ==
    IF starts_period(block_height)
    THEN {calculate_next_work_required(prev.target, first, prev.timestamp) :
             first \in get_last_retarget_time(r, prev.chain_id, block_height)}
    ELSE {prev.target}

verify_block_header(r, prev, block_height, target) ==
    \/ DisableDifficultyCheck
    \/ target \in expected_target(r, prev, block_height)

-----------------------------------------------------------------------------
(* The order of the chains                                                 *)

(* A run of swap_chain: the chain at one position is moved to another, and *)
(* those in between make room.                                             *)
move(chains, from, to) ==
    [p \in DOMAIN chains |->
        IF p = to THEN chains[from]
        ELSE IF from <= p /\ p < to THEN chains[p + 1]
        ELSE IF to < p /\ p <= from THEN chains[p - 1]
        ELSE chains[p]]

(* A new chain goes before the first lower fork.                           *)
insert_sorted(r, id) ==
    LET last == r.ChainCounter - 1
        lower == {p \in 1 .. last - 1 : max_height(r, id) > max_height(r, r.Chains[p])}
        position == IF lower = {} THEN last
                    ELSE CHOOSE p \in lower : \A q \in lower : p <= q
    IN  [r EXCEPT !.Chains = move(insert(r.Chains, last, id), last, position)]

(* After a reorganisation the overtaking fork is lower than before: it     *)
(* moves behind the chains that follow it and are higher.                  *)
resort(r, id) ==
    LET start == CHOOSE p \in DOMAIN r.Chains : r.Chains[p] = id
        higher(p) == max_height(r, r.Chains[p]) > max_height(r, id)
        end == CHOOSE e \in start .. r.ChainCounter - 1 :
                  /\ \A p \in start + 1 .. e : higher(p)
                  /\ e + 1 < r.ChainCounter => ~higher(e + 1)
    IN  [r EXCEPT !.Chains = move(r.Chains, start, end)]

-----------------------------------------------------------------------------
(* Reorganisation                                                          *)

(* The headers from `tip` down to the main chain.                          *)
links_to_main(r, tip) ==
    LET links[h \in DOMAIN r.BlockHeaders] ==
            IF r.BlockHeaders[h].chain_id = MAIN_CHAIN_ID THEN {}
            ELSE {h} \cup links[r.BlockHeaders[h].prev]
    IN  links[tip]

(* Mutant: the branching header itself is counted to the fork.             *)
start_height_at(parent) == parent.block_height

(* Where a chain starts once the header below has left it.                 *)
start_height_above(parent) == parent.block_height + 1

(* swap_main_blockchain: the headers from the fork's tip down to the main  *)
(* chain become main chain headers, wherever they were kept; the main      *)
(* chain headers at these heights become the fork.  A fork in between      *)
(* keeps the headers above the one the path branches off.                  *)
swap_main_blockchain(r, fork) ==
    LET top == max_height(r, fork)
        tip == r.ChainsHashes[<<fork, top>>]
        moved == links_to_main(r, tip)
        key(h) == <<r.BlockHeaders[h].chain_id, r.BlockHeaders[h].block_height>>
        parent(h) == r.BlockHeaders[r.BlockHeaders[h].prev]
        main_key(h) == <<MAIN_CHAIN_ID, r.BlockHeaders[h].block_height>>
        replaced == {r.ChainsHashes[k] : k \in DOMAIN r.ChainsHashes
                                                 \cap {main_key(h) : h \in moved}}
        new_key(h) == IF h \in moved THEN main_key(h)
                      ELSE <<fork, r.BlockHeaders[h].block_height>>
        new_keys == {new_key(h) : h \in moved \cup replaced}
        branches(id) == {h \in moved : parent(h).chain_id = id
                                       /\ parent(h).chain_id # r.BlockHeaders[h].chain_id}
        start(id) == start_height_above(parent(CHOOSE h \in branches(id) : TRUE))
        index(id) ==
            IF id = MAIN_CHAIN_ID THEN [r.ChainsIndex[id] EXCEPT !.max_height = top]
            ELSE IF id = fork
            THEN [r.ChainsIndex[MAIN_CHAIN_ID] EXCEPT !.start_height = start(MAIN_CHAIN_ID)]
            ELSE IF branches(id) # {} THEN [r.ChainsIndex[id] EXCEPT !.start_height = start(id)]
            ELSE r.ChainsIndex[id]
    IN  resort([r EXCEPT
            !.BestBlock = tip,
            !.BestBlockHeight = top,
            !.BlockHeaders = [h \in DOMAIN @ |->
                                 IF h \in moved THEN [@[h] EXCEPT !.chain_id = MAIN_CHAIN_ID]
                                 ELSE IF h \in replaced THEN [@[h] EXCEPT !.chain_id = fork]
                                 ELSE @[h]],
            !.ChainsHashes = [k \in (DOMAIN @ \ {key(h) : h \in moved}) \cup new_keys |->
                                 IF k \in new_keys
                                 THEN CHOOSE h \in moved \cup replaced : new_key(h) = k
                                 ELSE @[k]],
            !.ChainsIndex = [id \in DOMAIN @ |-> index(id)]], fork)

(* Mutants: one block of lead is enough; any fork will do.                 *)
overtakes_by_one(height, main_height) == main_height < height

overtakes_always(height, main_height) == TRUE

(* A fork replaces the main chain when it is Confirmations higher.         *)
overtakes(height, main_height) ==
    /\ main_height < height
    /\ main_height + Confirmations <= height

(* reorganize_chains: an extended fork moves up past forks that are lower. *)
(* From the second comparison on the height compared is that of the chain  *)
(* just passed (current_height = prev_height), not the fork's own.         *)
reorganize_chains(r, fork) ==
    LET position == CHOOSE p \in DOMAIN r.Chains : r.Chains[p] = fork
        height(p) == max_height(r, r.Chains[p])
        passes(p) == r.Chains[p] # MAIN_CHAIN_ID /\ height(p) < height(p + 1)
        top == CHOOSE t \in 0 .. position :
                  /\ \A p \in t .. position - 1 : passes(p)
                  /\ t > 0 => ~passes(t - 1)
        moved == [r EXCEPT !.Chains = move(r.Chains, position, top)]
    IN  IF /\ top > 0
           /\ r.Chains[top - 1] = MAIN_CHAIN_ID
           /\ overtakes(height(top), height(top - 1))
        THEN swap_main_blockchain(moved, fork)
        ELSE moved

-----------------------------------------------------------------------------
(* Storing headers                                                         *)

store_rich_header(r, header, id) ==
    [r EXCEPT !.BlockHeaders = Append(@, [header EXCEPT !.chain_id = id])]

new_hash(r) == Len(r.BlockHeaders) + 1

create_and_store_blockchain(r, header) ==
    LET id == r.ChainCounter
        height == header.block_height
        chain == [start_height |-> height, max_height |-> height]
    IN  store_rich_header(
            insert_sorted([r EXCEPT !.ChainCounter = @ + 1,
                                    !.ChainsHashes = insert(@, <<id, height>>, new_hash(r)),
                                    !.ChainsIndex = insert(@, id, chain)], id),
            header, id)

extend_blockchain(r, header, id) ==
    LET key == <<id, header.block_height>> IN
    IF key \in DOMAIN r.ChainsHashes THEN {}
    ELSE {store_rich_header(
             [r EXCEPT !.ChainsHashes = insert(@, key, new_hash(r)),
                       !.ChainsIndex[id].max_height = header.block_height],
             header, id)}

update_chain_head(r, hash, height) == [r EXCEPT !.BestBlock = hash, !.BestBlockHeight = height]

new_header(prev, timestamp, target, height) ==
    [prev |-> prev, timestamp |-> timestamp, target |-> target,
     block_height |-> height, chain_id |-> MAIN_CHAIN_ID, para_height |-> ActiveBlockCount]

initialize(timestamp, target, height) ==
    /\ ~best_block_exists
    /\ DisableDifficultyCheck \/ height % Interval = 0
    /\ relay' = update_chain_head(
                    create_and_store_blockchain(relay, new_header(0, timestamp, target, height)),
                    new_hash(relay), height)
    /\ StartBlockHeight' = height
    /\ UNCHANGED <<DisableDifficultyCheck, securityVars>>

store_block_header(prev, timestamp, target) ==
    LET parent == relay.BlockHeaders[prev]
        id == parent.chain_id
        height == parent.block_height + 1
        header == new_header(prev, timestamp, target, height)
        is_new_fork == max_height(relay, id) # parent.block_height
        extended(r) == IF id # MAIN_CHAIN_ID THEN reorganize_chains(r, id)
                       ELSE update_chain_head(r, new_hash(relay), height)
    IN
    /\ Len(relay.BlockHeaders) < MaxHeaders
    /\ verify_block_header(relay, parent, height, target)
    /\ relay' \in IF is_new_fork THEN {create_and_store_blockchain(relay, header)}
                  ELSE {extended(r) : r \in extend_blockchain(relay, header, id)}
    /\ UNCHANGED <<StartBlockHeight, DisableDifficultyCheck, securityVars>>

RelayNext(timestamps, targets) ==
    \/ \E t \in timestamps, x \in targets, h \in StartHeights : initialize(t, x, h)
    \/ \E p \in DOMAIN relay.BlockHeaders, t \in timestamps, x \in targets :
          store_block_header(p, t, x)

Next ==
    \/ RelayNext(Timestamps, Targets)
    \/ SecurityNext /\ UNCHANGED relayVars

Spec == Init /\ [][Next]_vars

-----------------------------------------------------------------------------
(* What other pallets ask                                                  *)

ensure_no_ongoing_fork ==
    1 \in DOMAIN relay.Chains =>
        relay.BestBlockHeight >= max_height(relay, relay.Chains[1]) + Confirmations

(* Mutant: one confirmation too few is enough.                             *)
check_bitcoin_confirmations_early(tx_block_height) ==
    relay.BestBlockHeight + 1 >= tx_block_height + Confirmations - 1

check_bitcoin_confirmations(tx_block_height) ==
    relay.BestBlockHeight >= tx_block_height + Confirmations - 1

check_parachain_confirmations(para_height) ==
    para_height + ParachainConfirmations <= ActiveBlockCount

verify_block_header_inclusion(hash) ==
    LET header == relay.BlockHeaders[hash] IN
    /\ ensure_no_ongoing_fork
    /\ header.chain_id = MAIN_CHAIN_ID
    /\ check_bitcoin_confirmations(header.block_height)
    /\ check_parachain_confirmations(header.para_height)

bitcoin_expiry_height(btc_open_height, period) ==
    btc_open_height + (period + BlocksPerBitcoinBlock - 1) \div BlocksPerBitcoinBlock

bitcoin_block_expired(btc_open_height, period) ==
    relay.BestBlockHeight > bitcoin_expiry_height(btc_open_height, period)

has_request_expired(opentime, btc_open_height, period) ==
    /\ parachain_block_expired(opentime, period)
    /\ bitcoin_block_expired(btc_open_height, period)

-----------------------------------------------------------------------------
(* Properties                                                              *)

Hashes == DOMAIN relay.BlockHeaders

OnMain(h) == relay.BlockHeaders[h].chain_id = MAIN_CHAIN_ID

(***************************************************************************)
(* Every stored header is found where its own chain id and height say, and *)
(* ChainsHashes has nothing else: swapping a fork of a fork into the main  *)
(* chain loses no header and leaves no stale entry.                        *)
(***************************************************************************)
HeadersIndexed ==
    /\ \A h \in Hashes :
          LET key == <<relay.BlockHeaders[h].chain_id, relay.BlockHeaders[h].block_height>>
          IN  key \in DOMAIN relay.ChainsHashes /\ relay.ChainsHashes[key] = h
    /\ \A k, l \in DOMAIN relay.ChainsHashes :
          relay.ChainsHashes[k] = relay.ChainsHashes[l] => k = l

(***************************************************************************)
(* A chain has exactly the heights from its start to its maximum, and each *)
(* of its headers is the child of the one below; a fork starts on a header *)
(* of another chain; the main chain starts where the relay was initialized *)
(* and ends in the best block.                                             *)
(***************************************************************************)
ChainsLinked ==
    /\ \A id \in DOMAIN relay.ChainsIndex :
          LET chain == relay.ChainsIndex[id]
              hash(n) == relay.ChainsHashes[<<id, n>>]
              prev(n) == relay.BlockHeaders[hash(n)].prev
          IN  /\ {k[2] : k \in {k \in DOMAIN relay.ChainsHashes : k[1] = id}}
                    = chain.start_height .. chain.max_height
              /\ \A n \in chain.start_height + 1 .. chain.max_height : prev(n) = hash(n - 1)
              /\ IF id = MAIN_CHAIN_ID
                 THEN /\ chain.start_height = StartBlockHeight
                      /\ chain.max_height = relay.BestBlockHeight
                      /\ hash(chain.max_height) = relay.BestBlock
                 ELSE /\ chain.start_height <= chain.max_height
                      /\ relay.BlockHeaders[prev(chain.start_height)].chain_id # id
    /\ best_block_exists => relay.Chains[0] = MAIN_CHAIN_ID

(***************************************************************************)
(* The storage maps of the relay describe one tree of headers, cut into    *)
(* chains: typed, indexed and linked.                                      *)
(***************************************************************************)
HeaderTree == TypeOK /\ HeadersIndexed /\ ChainsLinked

(***************************************************************************)
(* A header leaves the main chain only when the best height grows by       *)
(* Confirmations in that step: a shorter lead of a fork, or a fork of a    *)
(* fork, never displaces a block that payments were verified against.      *)
(***************************************************************************)
ReorgDepth ==
    [][(\E h \in Hashes : OnMain(h) /\ ~OnMain(h)')
          => relay'.BestBlockHeight >= relay.BestBlockHeight + Confirmations]_vars

(***************************************************************************)
(* A request that has expired stays expired: no reorganisation takes the   *)
(* best height back, and the counter can be stopped but not reset.  The    *)
(* cancel calls of issue, redeem and replace rest on it.                   *)
(***************************************************************************)
ExpiryIsFinal ==
    [][\A o \in 0 .. ActiveBlockCount, n \in StartBlockHeight .. relay.BestBlockHeight,
          p \in Periods :
          best_block_exists /\ has_request_expired(o, n, p) => has_request_expired(o, n, p)']_vars

(* The header n links up from h.                                           *)
Ancestor(h, n) ==
    LET up[i \in 0 .. n] == IF i = 0 THEN h ELSE relay.BlockHeaders[up[i - 1]].prev
    IN  up[n]

(***************************************************************************)
(* A header that verify_block_header_inclusion accepts, which is when a    *)
(* payment in it counts, is an ancestor of the best block with at least    *)
(* Confirmations headers from it to there, itself included, and was known  *)
(* to the parachain before the current block: reorganisations that move    *)
(* headers between chains never leave one that merely looks confirmed.     *)
(***************************************************************************)
VerifiedIsBuried ==
    \A h \in Hashes :
        LET header == relay.BlockHeaders[h]
            depth == relay.BestBlockHeight - header.block_height
        IN  verify_block_header_inclusion(h) =>
                /\ depth + 1 >= Confirmations
                /\ Ancestor(relay.BestBlock, depth) = h
                /\ ParachainConfirmations > 0 => header.para_height < ActiveBlockCount

(***************************************************************************)
(* With the check, every stored header has the target Bitcoin's rule gives *)
(* it: its parent's, or at the start of a period the one computed from the *)
(* header Interval blocks up its own line of ancestors.                    *)
(***************************************************************************)
TargetsFollowConsensus ==
    ~DisableDifficultyCheck => \A h \in Hashes :
        LET header == relay.BlockHeaders[h]
            parent == relay.BlockHeaders[header.prev]
        IN  header.prev # 0 =>
                header.target =
                    IF starts_period(header.block_height)
                    THEN calculate_next_work_required(parent.target,
                             relay.BlockHeaders[Ancestor(h, Interval)].timestamp, parent.timestamp)
                    ELSE parent.target

-----------------------------------------------------------------------------
(* What comments of the code say                                           *)

(***************************************************************************)
(* ensure_no_ongoing_fork: "check that the main chain is at least          *)
(* Self::confirmations() ahead".  Where it answers yes, the main chain is  *)
(* that far ahead of every fork.                                           *)
(***************************************************************************)
OngoingForkDetected ==
    best_block_exists /\ ensure_no_ongoing_fork =>
        \A id \in DOMAIN relay.ChainsIndex \ {MAIN_CHAIN_ID} :
            relay.BestBlockHeight >= max_height(relay, id) + Confirmations
=============================================================================
