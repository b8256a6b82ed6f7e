--------------------------------- MODULE Chain ---------------------------------
(***************************************************************************)
(* The chain the contract runs on, as far as the contract sees it: callers *)
(* and a block number.  Every message is a transaction of some block and   *)
(* runs alone; one that panics changes nothing, so it is not a step.       *)
(***************************************************************************)
EXTENDS Naturals

CONSTANTS
  Accounts,  \* the accounts that send transactions
  MaxBlock,  \* bound: the last block of a behaviour
  BlockTxs   \* bound: the transactions that fit in a block

ASSUME ChainAssumption == MaxBlock \in Nat /\ BlockTxs \in Nat

VARIABLES
  block,  \* env().block_number(), which also stands for env().block_timestamp()
  txs     \* transactions already in this block

chainVars == <<block, txs>>

ChainTypeOK == block \in 0 .. MaxBlock /\ txs \in 0 .. BlockTxs

ChainInit == block = 0 /\ txs = 0

NewBlock ==
  /\ block < MaxBlock
  /\ block' = block + 1
  /\ txs' = 0

\* One more transaction in the current block
Transaction ==
  /\ txs < BlockTxs
  /\ txs' = txs + 1
  /\ UNCHANGED block

================================================================================
