------------------------------- MODULE Wallets -------------------------------
(***************************************************************************)
(* The wallets of one node: the keys the WalletManager holds in memory, the *)
(* files it keeps of them, and the keys blocks are mined for, across        *)
(* crashes, restarts and I/O errors.                                       *)
(* models/wallet_store.rs, models/wallet.rs, the start in main.rs, and the  *)
(* wallet handlers of api/routes.rs and network/node.rs.                    *)
(*                                                                         *)
(* An operation holds the manager's lock, so it is one step; the miner works *)
(* on a copy of the active wallet meanwhile. A key is a number, a recovery   *)
(* phrase is the key derived from it, passwords are always the right ones,   *)
(* and a wif or json string is the wallet it encodes. A crash ends the       *)
(* process; what fs::write has reported written stays.                     *)
(***************************************************************************)
EXTENDS Integers

CONSTANTS
    Name,           \* the names users give to wallets
    Default,        \* "default"
    MaxKeys,        \* bound: the keys generated
    MaxFaults       \* bound: the reads and writes that fail

ASSUME WalletsAssumption ==
    /\ Default \in Name
    /\ MaxKeys \in Nat
    /\ MaxFaults \in Nat

VARIABLES
    phase,      \* "down", "loaded" (WalletManager::new has read the files) or "up"
    wallets,    \* wallets[name]: what the manager holds
    selected,   \* the name of the active wallet; not persisted
    file,       \* file[name][format]: what <name>.<format> holds
    miner,      \* the wallet a block is being mined for
    phrases,    \* the keys whose recovery phrases users have written down
    keys,       \* the last key generated
    faults,     \* the reads and writes that have failed
    paid,       \* history: the keys blocks have paid
    held,       \* history: the keys the manager has ever held under a name
    damaged     \* history: the names whose wallet was imported or loaded over
                \* with another one, or whose json file an I/O error has hit

vars == <<phase, wallets, selected, file, miner, phrases, keys, faults, paid, held, damaged>>

Format == {"json", "wif", "aes"}

\* phrase: whether the wallet knows its recovery phrase.
Wallet == [key : 1..MaxKeys, phrase : BOOLEAN]

NoWallet == [key |-> 0, phrase |-> FALSE]
NoFile   == [key |-> 0, phrase |-> FALSE]
Torn     == [key |-> 0, phrase |-> TRUE]    \* truncated, and not written again

NoWallets == [name \in Name |-> NoWallet]

\* Between operations, the active wallet is one the manager holds: what
\* current_wallet expects.
TypeOK ==
    /\ phase \in {"down", "loaded", "up"}
    /\ wallets \in [Name -> Wallet \cup {NoWallet}]
    /\ selected \in Name
    /\ phase = "up" => wallets[selected] # NoWallet
    /\ file \in [Name -> [Format -> Wallet \cup {NoFile, Torn}]]
    /\ miner \in Wallet \cup {NoWallet}
    /\ phrases \subseteq 1..MaxKeys
    /\ keys \in 0..MaxKeys
    /\ faults \in 0..MaxFaults
    /\ paid \subseteq 1..MaxKeys
    /\ held \in [Name -> SUBSET (1..MaxKeys)]
    /\ damaged \subseteq Name

Init ==
    /\ phase = "down"
    /\ wallets = NoWallets
    /\ selected = Default
    /\ file = [name \in Name |-> [format \in Format |-> NoFile]]
    /\ miner = NoWallet
    /\ phrases = {}
    /\ keys = 0
    /\ faults = 0
    /\ paid = {}
    /\ held = [name \in Name |-> {}]
    /\ damaged = {}

-----------------------------------------------------------------------------
\* Files (fs::write, to_json, to_wif, encrypt_to_file and their inverses).

\* What a file of the format keeps of a wallet: a wif has no recovery phrase.
Encoded(wallet, format) ==
    IF format = "wif" THEN [wallet EXCEPT !.phrase = FALSE] ELSE wallet

\* fs::write truncates the file, then writes it; it may fail before either.
\* over: the names the operation itself leaves damaged.
Write(name, format, wallet, over) ==
    \/ /\ file' = [file EXCEPT ![name][format] = Encoded(wallet, format)]
       /\ damaged' = damaged \cup over
       /\ UNCHANGED faults
    \/ /\ faults < MaxFaults
       /\ faults' = faults + 1
       /\ \E left \in {file[name][format], Torn} :
             file' = [file EXCEPT ![name][format] = left]
       /\ damaged' = damaged \cup over \cup (IF format = "json" THEN {name} ELSE {})

-----------------------------------------------------------------------------
\* The manager (WalletManager).

Insert(name, wallet) ==
    /\ wallets' = [wallets EXCEPT ![name] = wallet]
    /\ held' = [held EXCEPT ![name] = @ \cup {wallet.key}]

\* Mutant of CreateWalletRaw: the wallet is not saved.
CreateWalletUnsaved(name, wallet, over) ==
    /\ Insert(name, wallet)
    /\ damaged' = damaged \cup over
    /\ UNCHANGED <<file, faults>>

\* The wallet is in memory before it is written, and stays there if that fails.
CreateWalletRaw(name, wallet, over) ==
    /\ Insert(name, wallet)
    /\ Write(name, "json", wallet, over)

\* Mutant of Free: a wallet of that name is no obstacle.
AlwaysFree(name) == name \in Name

\* Whether the name may be given to a new wallet.
Free(name) == wallets[name] = NoWallet

\* create_wallet and create_wallet_with_mnemonic; the user notes the phrase, which
\* the answer holds only if the wallet was written.
Create(name) ==
    /\ phase = "up"
    /\ Free(name)
    /\ keys < MaxKeys
    /\ keys' = keys + 1
    /\ \E phrase \in BOOLEAN :
          /\ CreateWalletRaw(name, [key |-> keys + 1, phrase |-> phrase], {})
          /\ phrases' = IF phrase /\ faults' = faults
                        THEN phrases \cup {keys + 1} ELSE phrases
    /\ UNCHANGED <<phase, selected, miner, paid>>

Recover(name) ==
    /\ phase = "up"
    /\ Free(name)
    /\ \E key \in phrases : CreateWalletRaw(name, [key |-> key, phrase |-> TRUE], {})
    /\ UNCHANGED <<phase, selected, miner, phrases, keys, paid>>

\* The name is damaged if it stood for another wallet.
Over(name, wallet) == IF wallets[name] \in {NoWallet, wallet} THEN {} ELSE {name}

\* Any json or wif file, onto any name; an aes file does not parse.
Import(name) ==
    /\ phase = "up"
    /\ \E from \in Name, format \in {"json", "wif"} :
          /\ file[from][format] \in Wallet
          /\ CreateWalletRaw(name, file[from][format], Over(name, file[from][format]))
    /\ UNCHANGED <<phase, selected, miner, phrases, keys, paid>>

SaveEncrypted(name) ==
    /\ phase = "up"
    /\ wallets[name] # NoWallet
    /\ Write(name, "aes", wallets[name], {})
    /\ UNCHANGED <<phase, wallets, selected, miner, phrases, keys, paid, held>>

\* Loads into memory only: the json file keeps what it has.
LoadEncrypted(name) ==
    /\ phase = "up"
    /\ file[name]["aes"] \in Wallet
    /\ Insert(name, file[name]["aes"])
    /\ damaged' = IF wallets[name] = file[name]["aes"] THEN damaged
                  ELSE damaged \cup {name}
    /\ UNCHANGED <<phase, selected, file, miner, phrases, keys, faults, paid>>

Export(name) ==
    /\ phase = "up"
    /\ wallets[name] # NoWallet
    /\ \E format \in {"json", "wif"} : Write(name, format, wallets[name], {})
    /\ UNCHANGED <<phase, wallets, selected, miner, phrases, keys, paid, held>>

\* Mutant of Select: the name is not looked up.
SelectAny(name) ==
    /\ phase = "up"
    /\ selected' = name
    /\ UNCHANGED <<phase, wallets, file, miner, phrases, keys, faults, paid, held, damaged>>

Select(name) ==
    /\ phase = "up"
    /\ wallets[name] # NoWallet
    /\ selected' = name
    /\ UNCHANGED <<phase, wallets, file, miner, phrases, keys, faults, paid, held, damaged>>

-----------------------------------------------------------------------------
\* Mining, beside the operations: the block pays a copy of the active wallet made
\* when mining began.

MineStart ==
    /\ phase = "up"
    /\ miner = NoWallet
    /\ miner' = wallets[selected]
    /\ UNCHANGED <<phase, wallets, selected, file, phrases, keys, faults, paid, held, damaged>>

\* The block is appended, or stale.
MineEnd ==
    /\ miner # NoWallet
    /\ paid' \in {paid, paid \cup {miner.key}}
    /\ miner' = NoWallet
    /\ UNCHANGED <<phase, wallets, selected, file, phrases, keys, faults, held, damaged>>

-----------------------------------------------------------------------------
\* Crash and start.

\* Also the panic of a start that finds wallets, but not the default one.
Crash ==
    /\ phase # "down"
    /\ phase' = "down"
    /\ wallets' = NoWallets
    /\ miner' = NoWallet
    /\ UNCHANGED <<selected, file, phrases, keys, faults, paid, held, damaged>>

\* Every json file that can be read and parsed; an error is only logged.
Loaded(unreadable) ==
    [name \in Name |-> IF file[name]["json"] \in Wallet /\ name \notin unreadable
                       THEN file[name]["json"] ELSE NoWallet]

\* load_wallets.
Load ==
    /\ phase = "down"
    /\ phase' = "loaded"
    /\ selected' = Default
    /\ \/ /\ wallets' = Loaded({})
          /\ UNCHANGED <<faults, damaged>>
       \/ /\ faults < MaxFaults
          /\ faults' = faults + 1
          /\ \E unreadable \in SUBSET {name \in Name : file[name]["json"] # NoFile} :
                /\ wallets' = Loaded(unreadable)
                /\ damaged' = damaged \cup unreadable
    /\ UNCHANGED <<file, miner, phrases, keys, paid, held>>

\* The default wallet is there: main goes on.
Ready ==
    /\ phase = "loaded"
    /\ wallets[Default] # NoWallet
    /\ phase' = "up"
    /\ UNCHANGED <<wallets, selected, file, miner, phrases, keys, faults, paid, held,
                   damaged>>

\* No wallet was loaded: WalletManager::new makes a default one, over the file of
\* that name if it could not be read, and ignores a failure to write it.
CreateDefault ==
    /\ phase = "loaded"
    /\ wallets = NoWallets
    /\ keys < MaxKeys
    /\ keys' = keys + 1
    /\ CreateWalletRaw(Default, [key |-> keys + 1, phrase |-> FALSE], {})
    /\ phase' = "up"
    /\ UNCHANGED <<selected, miner, phrases, paid>>

Next ==
    \/ \E name \in Name :
          \/ Create(name) \/ Recover(name) \/ Import(name)
          \/ SaveEncrypted(name) \/ LoadEncrypted(name) \/ Export(name) \/ Select(name)
    \/ MineStart \/ MineEnd
    \/ Crash \/ Load \/ Ready \/ CreateDefault

Spec == Init /\ [][Next]_vars

-----------------------------------------------------------------------------
\* Safety.

\* Unless a name was imported or loaded over, or an I/O error hit its file, every
\* key ever held under it is the one its json file holds, and a running manager
\* holds exactly what the next start will load: no sequence of creations,
\* recoveries, exports, crashes and restarts loses a key or its phrase
\* (wallet_store.rs).
KeysSurvive ==
    \A name \in Name \ damaged :
        /\ \A key \in held[name] : file[name]["json"].key = key
        /\ phase = "up" => wallets[name] = Loaded({})[name]

\* A start never ends in the panic of main for want of the default wallet, unless
\* that wallet was damaged: other names and their files do not matter.
StartsUnlessDamaged ==
    phase = "loaded" /\ Default \notin damaged =>
        wallets = NoWallets \/ wallets[Default] # NoWallet

\* What was mined can be spent: each key a block has paid, or is about to pay, is
\* in a running manager, unless it was held under a name damaged since. The miner
\* works on a copy while the API changes the wallets (post_mine_block and the
\* wallet handlers).
RewardsOwned ==
    phase = "up" =>
        \A key \in (paid \cup {miner.key}) \ {0} : \E name \in Name :
            \/ wallets[name].key = key
            \/ name \in damaged /\ key \in held[name]
=============================================================================
