---------------------------- MODULE WalletsProofs ----------------------------
(***************************************************************************)
(* Proofs of the invariants of module Wallets, for every set of names and  *)
(* every bound. What makes them inductive is where each key is held: the    *)
(* wallets in memory and in files are among those ever held under their     *)
(* name, and nothing is held before the default name has been.             *)
(***************************************************************************)
EXTENDS Wallets, TLAPS

\* KeysSurvive, also while a start has read the files but is not up.
FilesCurrent ==
    \A name \in Name \ damaged :
        /\ \A key \in held[name] : file[name]["json"].key = key
        /\ phase # "down" => wallets[name] = Loaded({})[name]

MemoryHeld ==
    \A name \in Name : wallets[name] # NoWallet => wallets[name].key \in held[name]

FilesHeld ==
    \A name \in Name, format \in Format :
        file[name][format] \in Wallet => file[name][format].key \in held[name]

DefaultFirst == \A name \in Name : held[name] # {} => held[Default] # {}

EarnedHeld ==
    \A key \in (paid \cup {miner.key}) \ {0} : \E name \in Name : key \in held[name]

KeyInv == FilesCurrent /\ MemoryHeld /\ FilesHeld /\ DefaultFirst /\ EarnedHeld

LoadedDefault == phase = "loaded" => selected = Default

Inv == TypeOK /\ KeyInv /\ StartsUnlessDamaged /\ LoadedDefault

-----------------------------------------------------------------------------
\* Files and memory.

\* What a write leaves: its own file is written, or kept, or torn.
LEMMA WriteProperties ==
    ASSUME TypeOK, NEW name \in Name, NEW format \in Format, NEW wallet \in Wallet,
           NEW over \in SUBSET Name, Write(name, format, wallet, over)
    PROVE  /\ file' \in [Name -> [Format -> Wallet \cup {NoFile, Torn}]]
           /\ faults' \in 0..MaxFaults
           /\ damaged' \subseteq Name
           /\ damaged \cup over \subseteq damaged'
           /\ format = "json" /\ name \notin damaged' => file'[name][format] = wallet
           /\ file'[name][format] \in Wallet =>
                 file'[name][format].key \in {wallet.key, file[name][format].key}
           /\ \A n \in Name, f \in Format :
                 n # name \/ f # format => file'[n][f] = file[n][f]
PROOF
<1> DEFINE Contents == Wallet \cup {NoFile, Torn}
<1>1. /\ Encoded(wallet, format) \in Wallet
      /\ Encoded(wallet, format).key = wallet.key
      /\ format = "json" => Encoded(wallet, format) = wallet
  BY DEF Encoded, Wallet
<1>2. Torn \notin Wallet
  BY DEF Torn, Wallet
<1>3. file[name] \in [Format -> Contents]
  BY DEF TypeOK
<1>4. PICK c \in Contents : file' = [file EXCEPT ![name][format] = c]
  BY <1>1 DEF Write, TypeOK
<1>5. file'[name][format] = c
  BY <1>3, <1>4 DEF TypeOK
<1>6. c \in {Encoded(wallet, format), file[name][format], Torn}
  BY <1>3, <1>5 DEF Write, TypeOK
<1>7. \A n \in Name, f \in Format : n # name \/ f # format => file'[n][f] = file[n][f]
  BY <1>4 DEF TypeOK
<1>8. file' \in [Name -> [Format -> Contents]]
  BY <1>4 DEF TypeOK
<1>9. faults' \in 0..MaxFaults /\ damaged' \subseteq Name /\ damaged \cup over \subseteq damaged'
  BY WalletsAssumption DEF Write, TypeOK
<1>10. format = "json" /\ name \notin damaged' => file'[name][format] = wallet
  BY <1>1, <1>3 DEF Write, TypeOK
<1> QED
  BY <1>1, <1>2, <1>5, <1>6, <1>7, <1>8, <1>9, <1>10

LEMMA InsertProperties ==
    ASSUME TypeOK, NEW name \in Name, NEW wallet \in Wallet, Insert(name, wallet)
    PROVE  /\ wallets' \in [Name -> Wallet \cup {NoWallet}]
           /\ held' \in [Name -> SUBSET (1..MaxKeys)]
           /\ wallets'[name] = wallet
           /\ held'[name] = held[name] \cup {wallet.key}
           /\ \A n \in Name \ {name} : wallets'[n] = wallets[n] /\ held'[n] = held[n]
PROOF
<1>1. wallet.key \in 1..MaxKeys
  BY DEF Wallet
<1> QED
  BY <1>1 DEF Insert, TypeOK

\* A wallet has a key, what stands for none or for a torn file has not.
LEMMA Kinds ==
    /\ \A w \in Wallet : w.key \in Nat \ {0} /\ w # NoWallet
    /\ NoWallet.key = 0 /\ NoFile.key = 0 /\ Torn.key = 0
    /\ NoWallet \notin Wallet /\ NoFile \notin Wallet /\ Torn \notin Wallet
PROOF
<1>1. 1..MaxKeys \subseteq Nat \ {0}
  BY WalletsAssumption
<1> QED
  BY <1>1 DEF Wallet, NoWallet, NoFile, Torn

\* create_wallet_raw keeps the keys where they should be: under a name that has no
\* wallet, or this one, or is left damaged.
LEMMA CreateKeeps ==
    ASSUME TypeOK, KeyInv, NEW name \in Name, NEW wallet \in Wallet, NEW over \in SUBSET Name,
           phase # "down", phase' # "down",
           wallets[name] \in {NoWallet, wallet} \/ name \in over,
           name = Default \/ held[Default] # {},
           CreateWalletRaw(name, wallet, over), UNCHANGED <<miner, paid>>
    PROVE  KeyInv'
PROOF
<1> USE DEF KeyInv
<1>1. /\ wallets' \in [Name -> Wallet \cup {NoWallet}]
      /\ held' \in [Name -> SUBSET (1..MaxKeys)]
      /\ wallets'[name] = wallet
      /\ held'[name] = held[name] \cup {wallet.key}
      /\ \A n \in Name \ {name} : wallets'[n] = wallets[n] /\ held'[n] = held[n]
  BY InsertProperties DEF CreateWalletRaw
<1>2. "json" \in Format
  BY DEF Format
<1>3. /\ damaged \cup over \subseteq damaged'
      /\ name \notin damaged' => file'[name]["json"] = wallet
      /\ file'[name]["json"] \in Wallet =>
            file'[name]["json"].key \in {wallet.key, file[name]["json"].key}
      /\ \A n \in Name, f \in Format :
            n # name \/ f # "json" => file'[n][f] = file[n][f]
  BY <1>2, WriteProperties DEF CreateWalletRaw
<1>4. \A n \in Name : held[n] \subseteq held'[n]
  BY <1>1
<1>5. FilesCurrent'
  <2> SUFFICES ASSUME NEW n \in Name \ damaged'
               PROVE  /\ \A key \in held'[n] : file'[n]["json"].key = key
                      /\ wallets'[n] = Loaded({})'[n]
    BY DEF FilesCurrent
  <2>1. /\ n \notin damaged
        /\ \A key \in held[n] : file[n]["json"].key = key
        /\ wallets[n] = Loaded({})[n]
    BY <1>3 DEF FilesCurrent
  <2>2. CASE n # name
    BY <1>1, <1>2, <1>3, <2>1, <2>2 DEF Loaded
  <2>3. CASE n = name
    <3>1. file'[n]["json"] = wallet /\ wallets[n] \in {NoWallet, wallet}
      BY <1>3, <2>3
    <3>2. wallets'[n] = Loaded({})'[n]
      BY <1>1, <2>3, <3>1 DEF Loaded
    <3>3. \A key \in held[n] : key = wallet.key
      <4>1. CASE wallets[n] = wallet
        BY <2>1, <4>1, Kinds DEF Loaded
      <4>2. CASE wallets[n] = NoWallet
        <5>1. file[n]["json"] \notin Wallet
          BY <2>1, <4>2, Kinds DEF Loaded
        <5>2. file[n]["json"] \in {NoFile, Torn}
          BY <1>2, <5>1 DEF TypeOK
        <5>3. \A key \in held[n] : key = 0
          BY <2>1, <5>2, Kinds
        <5>4. held[n] \subseteq 1..MaxKeys
          BY DEF TypeOK
        <5>5. 0 \notin 1..MaxKeys
          BY WalletsAssumption
        <5> QED
          BY <5>3, <5>4, <5>5
      <4> QED
        BY <3>1, <4>1, <4>2
    <3> QED
      BY <1>1, <2>3, <3>1, <3>2, <3>3
  <2> QED
    BY <2>2, <2>3
<1>6. MemoryHeld'
  BY <1>1 DEF MemoryHeld
<1>7. FilesHeld'
  <2> SUFFICES ASSUME NEW n \in Name, NEW f \in Format, file'[n][f] \in Wallet
               PROVE  file'[n][f].key \in held'[n]
    BY DEF FilesHeld
  <2>1. CASE n # name \/ f # "json"
    BY <1>3, <1>4, <2>1 DEF FilesHeld
  <2>2. CASE n = name /\ f = "json"
    <3>1. CASE file'[n][f].key = wallet.key
      BY <1>1, <2>2, <3>1
    <3>2. CASE file'[n][f].key = file[n][f].key /\ file[n][f] \in Wallet
      BY <1>4, <3>2 DEF FilesHeld
    <3>3. CASE file'[n][f].key = file[n][f].key /\ file[n][f] \notin Wallet
      <4>1. file[n][f] \in {NoFile, Torn}
        BY <3>3 DEF TypeOK
      <4> QED
        BY <3>3, <4>1, Kinds
    <3> QED
      BY <1>3, <2>2, <3>1, <3>2, <3>3
  <2> QED
    BY <2>1, <2>2
<1>8. DefaultFirst'
  <2>1. held'[Default] # {}
    BY <1>1, <1>4, WalletsAssumption
  <2> QED
    BY <2>1 DEF DefaultFirst
<1>9. EarnedHeld'
  BY <1>4 DEF EarnedHeld
<1> QED
  BY <1>5, <1>6, <1>7, <1>8, <1>9

-----------------------------------------------------------------------------
\* The operations.

\* Writing a wallet under its own name loses nothing.
LEMMA SaveKeeps ==
    ASSUME Inv, NEW name \in Name, NEW format \in Format,
           phase = "up", wallets[name] # NoWallet,
           Write(name, format, wallets[name], {}),
           UNCHANGED <<phase, wallets, selected, miner, phrases, keys, paid, held>>
    PROVE  Inv'
PROOF
<1> USE DEF Inv, KeyInv
<1> DEFINE wallet == wallets[name]
<1>1. wallet \in Wallet /\ wallet.key \in held[name]
  BY DEF TypeOK, MemoryHeld
<1>2. /\ file' \in [Name -> [Format -> Wallet \cup {NoFile, Torn}]]
      /\ faults' \in 0..MaxFaults
      /\ damaged' \subseteq Name
      /\ damaged \subseteq damaged'
      /\ format = "json" /\ name \notin damaged' => file'[name][format] = wallet
      /\ file'[name][format] \in Wallet =>
            file'[name][format].key \in {wallet.key, file[name][format].key}
      /\ \A n \in Name, f \in Format :
            n # name \/ f # format => file'[n][f] = file[n][f]
  BY <1>1, WriteProperties
<1>3. TypeOK'
  BY <1>2 DEF TypeOK
<1>4. FilesCurrent'
  <2> SUFFICES ASSUME NEW n \in Name \ damaged'
               PROVE  /\ \A key \in held[n] : file'[n]["json"].key = key
                      /\ wallets[n] = Loaded({})'[n]
    BY DEF FilesCurrent
  <2>1. /\ n \notin damaged
        /\ \A key \in held[n] : file[n]["json"].key = key
        /\ wallets[n] = Loaded({})[n]
    BY <1>2 DEF FilesCurrent
  <2>2. "json" \in Format
    BY DEF Format
  <2>3. CASE n # name \/ format # "json"
    BY <1>2, <2>1, <2>2, <2>3 DEF Loaded
  <2>4. CASE n = name /\ format = "json"
    <3>1. file[n]["json"] = wallet
      BY <1>1, <2>1, <2>4, Kinds DEF Loaded
    <3>2. file'[n]["json"] = wallet
      BY <1>2, <2>4
    <3> QED
      BY <2>1, <3>1, <3>2 DEF Loaded
  <2> QED
    BY <2>3, <2>4
<1>5. MemoryHeld' /\ DefaultFirst' /\ EarnedHeld'
  BY DEF MemoryHeld, DefaultFirst, EarnedHeld
<1>6. FilesHeld'
  <2> SUFFICES ASSUME NEW n \in Name, NEW f \in Format, file'[n][f] \in Wallet
               PROVE  file'[n][f].key \in held[n]
    BY DEF FilesHeld
  <2>1. CASE n # name \/ f # format
    BY <1>2, <2>1 DEF FilesHeld
  <2>2. CASE n = name /\ f = format
    <3>1. CASE file'[n][f].key = wallet.key
      BY <1>1, <2>2, <3>1
    <3>2. CASE file'[n][f].key = file[n][f].key /\ file[n][f] \in Wallet
      BY <3>2 DEF FilesHeld
    <3>3. CASE file'[n][f].key = file[n][f].key /\ file[n][f] \notin Wallet
      <4>1. file[n][f] \in {NoFile, Torn}
        BY <3>3 DEF TypeOK
      <4> QED
        BY <3>3, <4>1, Kinds
    <3> QED
      BY <1>2, <2>2, <3>1, <3>2, <3>3
  <2> QED
    BY <2>1, <2>2
<1>7. StartsUnlessDamaged' /\ LoadedDefault'
  BY DEF StartsUnlessDamaged, LoadedDefault
<1> QED
  BY <1>3, <1>4, <1>5, <1>6, <1>7

\* The types after create_wallet_raw, in a process that is then up.
LEMMA CreateTyped ==
    ASSUME Inv, NEW name \in Name, NEW wallet \in Wallet, NEW over \in SUBSET Name,
           CreateWalletRaw(name, wallet, over), UNCHANGED <<selected, miner, paid>>,
           phase' = "up", phase # "down",
           wallets[name] \in {NoWallet, wallet} \/ name \in over,
           phase = "up" \/ (name = Default /\ selected = Default),
           phrases' \subseteq 1..MaxKeys, keys' \in 0..MaxKeys
    PROVE  Inv'
PROOF
<1> USE DEF Inv
<1>1. /\ wallets' \in [Name -> Wallet \cup {NoWallet}]
      /\ held' \in [Name -> SUBSET (1..MaxKeys)]
      /\ wallets'[name] = wallet
      /\ \A n \in Name \ {name} : wallets'[n] = wallets[n]
  BY InsertProperties DEF CreateWalletRaw
<1>2. "json" \in Format
  BY DEF Format
<1>3. /\ file' \in [Name -> [Format -> Wallet \cup {NoFile, Torn}]]
      /\ faults' \in 0..MaxFaults
      /\ damaged' \subseteq Name
  BY <1>2, WriteProperties DEF CreateWalletRaw
<1>4. wallets'[selected'] # NoWallet
  BY <1>1, Kinds DEF TypeOK
<1>5. TypeOK'
  BY <1>1, <1>3, <1>4 DEF TypeOK
<1>6. name = Default \/ held[Default] # {}
  <2>1. CASE phase = "up"
    <3>1. held[selected] # {}
      BY <2>1 DEF TypeOK, KeyInv, MemoryHeld
    <3> QED
      BY <3>1 DEF KeyInv, DefaultFirst, TypeOK
  <2> QED
    BY <2>1
<1>7. KeyInv'
  BY <1>6, CreateKeeps
<1>8. StartsUnlessDamaged' /\ LoadedDefault'
  BY DEF StartsUnlessDamaged, LoadedDefault
<1> QED
  BY <1>5, <1>7, <1>8

\* A step that gives a name a new or an imported wallet.
LEMMA CreationsKeep ==
    ASSUME Inv, NEW name \in Name,
           Create(name) \/ Recover(name) \/ Import(name) \/ CreateDefault
    PROVE  Inv'
PROOF
<1>1. keys + 1 \in Nat /\ MaxKeys \in Nat /\ keys \in Nat
  BY WalletsAssumption DEF Inv, TypeOK
<1>2. CASE Create(name)
  <2>1. keys + 1 \in 1..MaxKeys
    BY <1>1, <1>2 DEF Create, Inv, TypeOK
  <2>2. PICK phrase \in BOOLEAN :
           /\ CreateWalletRaw(name, [key |-> keys + 1, phrase |-> phrase], {})
           /\ phrases' = IF phrase /\ faults' = faults
                         THEN phrases \cup {keys + 1} ELSE phrases
    BY <1>2 DEF Create
  <2>3. [key |-> keys + 1, phrase |-> phrase] \in Wallet
    BY <2>1 DEF Wallet
  <2>4. phrases' \subseteq 1..MaxKeys
    BY <2>1, <2>2 DEF Inv, TypeOK
  <2>5. keys' \in 0..MaxKeys
    BY <1>1, <1>2, <2>1 DEF Create
  <2>6. /\ phase = "up" /\ phase' = "up" /\ wallets[name] = NoWallet
        /\ {} \in SUBSET Name
        /\ UNCHANGED <<selected, miner, paid>>
    BY <1>2 DEF Create, Free
  <2> QED
    BY <2>2, <2>3, <2>4, <2>5, <2>6, CreateTyped
<1>3. CASE Recover(name)
  <2>1. PICK key \in phrases : CreateWalletRaw(name, [key |-> key, phrase |-> TRUE], {})
    BY <1>3 DEF Recover
  <2>2. [key |-> key, phrase |-> TRUE] \in Wallet
    BY DEF Wallet, Inv, TypeOK
  <2>3. /\ phase = "up" /\ phase' = "up" /\ wallets[name] = NoWallet
        /\ UNCHANGED <<selected, miner, phrases, keys, paid>>
    BY <1>3 DEF Recover, Free
  <2>4. {} \in SUBSET Name /\ phrases' \subseteq 1..MaxKeys /\ keys' \in 0..MaxKeys
    BY <2>3 DEF Inv, TypeOK
  <2> QED
    BY <2>1, <2>2, <2>3, <2>4, CreateTyped
<1>4. CASE Import(name)
  <2>1. PICK from \in Name, format \in {"json", "wif"} :
           /\ file[from][format] \in Wallet
           /\ CreateWalletRaw(name, file[from][format], Over(name, file[from][format]))
    BY <1>4 DEF Import
  <2> DEFINE wallet == file[from][format]
             over == Over(name, wallet)
  <2>2. /\ phase = "up" /\ phase' = "up"
        /\ UNCHANGED <<selected, miner, phrases, keys, paid>>
    BY <1>4 DEF Import
  <2>3. over \in SUBSET Name
    BY DEF Over
  <2>4. wallets[name] \in {NoWallet, wallet} \/ name \in over
    BY DEF Over
  <2>5. wallet \in Wallet /\ CreateWalletRaw(name, wallet, over)
    BY <2>1
  <2>6. phrases' \subseteq 1..MaxKeys /\ keys' \in 0..MaxKeys
    BY <2>2 DEF Inv, TypeOK
  <2> HIDE DEF wallet, over
  <2> QED
    BY <2>2, <2>3, <2>4, <2>5, <2>6, CreateTyped
<1>5. CASE CreateDefault
  <2>1. keys + 1 \in 1..MaxKeys
    BY <1>1, <1>5 DEF CreateDefault, Inv, TypeOK
  <2>2. [key |-> keys + 1, phrase |-> FALSE] \in Wallet
    BY <2>1 DEF Wallet
  <2>3. keys' \in 0..MaxKeys
    BY <1>1, <1>5, <2>1 DEF CreateDefault
  <2>4. /\ phase = "loaded" /\ phase' = "up" /\ wallets[Default] = NoWallet
        /\ selected = Default
        /\ CreateWalletRaw(Default, [key |-> keys + 1, phrase |-> FALSE], {})
        /\ UNCHANGED <<selected, miner, phrases, paid>>
    BY <1>5, WalletsAssumption DEF CreateDefault, NoWallets, Inv, LoadedDefault
  <2>5. Default \in Name /\ {} \in SUBSET Name /\ phrases' \subseteq 1..MaxKeys
    BY <2>4, WalletsAssumption DEF Inv, TypeOK
  <2> QED
    BY <2>2, <2>3, <2>4, <2>5, CreateTyped
<1> QED
  BY <1>2, <1>3, <1>4, <1>5

LEMMA SavesKeep ==
    ASSUME Inv, NEW name \in Name, SaveEncrypted(name) \/ Export(name)
    PROVE  Inv'
PROOF
<1>1. PICK format \in Format : Write(name, format, wallets[name], {})
  BY DEF SaveEncrypted, Export, Format
<1>2. /\ phase = "up" /\ wallets[name] # NoWallet
      /\ UNCHANGED <<phase, wallets, selected, miner, phrases, keys, paid, held>>
  BY DEF SaveEncrypted, Export
<1> QED
  BY <1>1, <1>2, SaveKeeps

LEMMA LoadEncryptedKeeps ==
    ASSUME Inv, NEW name \in Name, LoadEncrypted(name)
    PROVE  Inv'
PROOF
<1> USE DEF Inv, KeyInv
<1> DEFINE wallet == file[name]["aes"]
<1>1. wallet \in Wallet /\ Insert(name, wallet)
  BY DEF LoadEncrypted
<1>2. /\ wallets' \in [Name -> Wallet \cup {NoWallet}]
      /\ held' \in [Name -> SUBSET (1..MaxKeys)]
      /\ wallets'[name] = wallet
      /\ held'[name] = held[name] \cup {wallet.key}
      /\ \A n \in Name \ {name} : wallets'[n] = wallets[n] /\ held'[n] = held[n]
  BY <1>1, InsertProperties
<1>3. /\ phase = "up"
      /\ UNCHANGED <<phase, selected, file, miner, phrases, keys, faults, paid>>
      /\ damaged' = IF wallets[name] = wallet THEN damaged ELSE damaged \cup {name}
  BY DEF LoadEncrypted
<1>4. TypeOK'
  <2>1. wallets'[selected] # NoWallet
    BY <1>1, <1>2, <1>3, Kinds DEF TypeOK
  <2> QED
    BY <1>2, <1>3, <2>1 DEF TypeOK
<1>5. FilesCurrent'
  <2> SUFFICES ASSUME NEW n \in Name \ damaged'
               PROVE  /\ \A key \in held'[n] : file[n]["json"].key = key
                      /\ wallets'[n] = Loaded({})[n]
    BY <1>3 DEF FilesCurrent, Loaded
  <2>1. n \notin damaged /\ (n = name => wallets[name] = wallet)
    BY <1>3
  <2>2. wallets[n].key \in held[n] \/ n # name
    BY <1>1, <2>1, Kinds DEF MemoryHeld
  <2>3. wallets'[n] = wallets[n] /\ held'[n] = held[n]
    <3>1. CASE n = name
      <4>1. wallets'[n] = wallets[n] /\ wallets[n] = wallet
        BY <1>2, <2>1, <3>1
      <4>2. held[n] \cup {wallet.key} = held[n]
        BY <2>2, <3>1, <4>1
      <4> QED
        BY <1>2, <3>1, <4>1, <4>2
    <3>2. CASE n # name
      <4>1. n \in Name \ {name}
        BY <3>2
      <4> QED
        BY <1>2, <4>1
    <3> QED
      BY <3>1, <3>2
  <2> QED
    BY <1>3, <2>1, <2>3 DEF FilesCurrent
<1>6. MemoryHeld' /\ FilesHeld' /\ EarnedHeld'
  BY <1>2, <1>3 DEF MemoryHeld, FilesHeld, EarnedHeld
<1>7. DefaultFirst'
  <2>1. held[selected] # {}
    BY <1>3 DEF TypeOK, MemoryHeld
  <2>2. held[Default] # {}
    BY <2>1 DEF DefaultFirst, TypeOK
  <2> QED
    BY <1>2, <2>2, WalletsAssumption DEF DefaultFirst
<1>8. StartsUnlessDamaged' /\ LoadedDefault'
  BY <1>3 DEF StartsUnlessDamaged, LoadedDefault
<1> QED
  BY <1>4, <1>5, <1>6, <1>7, <1>8

\* The read errors of a start leave the names they hit damaged.
LEMMA LoadKeeps ==
    ASSUME Inv, Load
    PROVE  Inv'
PROOF
<1> USE DEF Inv, KeyInv
<1>1. PICK unreadable \in SUBSET Name :
         /\ wallets' = Loaded(unreadable)
         /\ damaged' = damaged \cup unreadable
  BY DEF Load
<1>2. /\ phase' = "loaded" /\ selected' = Default
      /\ UNCHANGED <<file, miner, phrases, keys, paid, held>>
  BY DEF Load
<1>3. \A n \in Name : wallets'[n] \in Wallet \cup {NoWallet}
  BY <1>1 DEF Loaded
<1>4. TypeOK'
  <2>1. wallets' \in [Name -> Wallet \cup {NoWallet}]
    BY <1>1, <1>3 DEF Loaded
  <2>2. faults' \in 0..MaxFaults
    BY WalletsAssumption DEF Load, TypeOK
  <2> QED
    BY <1>1, <1>2, <2>1, <2>2, WalletsAssumption DEF TypeOK
<1>5. FilesCurrent'
  BY <1>1, <1>2 DEF FilesCurrent, Loaded
<1>6. MemoryHeld'
  BY <1>1, <1>2 DEF MemoryHeld, FilesHeld, Loaded, Format
<1>7. FilesHeld' /\ DefaultFirst' /\ EarnedHeld' /\ LoadedDefault'
  BY <1>2 DEF FilesHeld, DefaultFirst, EarnedHeld, LoadedDefault
<1>8. StartsUnlessDamaged'
  <2> SUFFICES ASSUME Default \notin damaged', NEW n \in Name, wallets'[n] # NoWallet
               PROVE  wallets'[Default] # NoWallet
    BY <1>1 DEF StartsUnlessDamaged, NoWallets, Loaded
  <2>1. held[Default] # {}
    BY <1>2, <1>6 DEF MemoryHeld, DefaultFirst
  <2>2. PICK key \in held[Default] : file[Default]["json"].key = key
    BY <1>1, <2>1, WalletsAssumption DEF FilesCurrent
  <2>3. key # 0
    BY <2>2, WalletsAssumption DEF TypeOK
  <2>4. file[Default]["json"] \in Wallet
    BY <2>2, <2>3, Kinds, WalletsAssumption DEF TypeOK, Format
  <2> QED
    BY <1>1, <2>4, Kinds, WalletsAssumption DEF Loaded
<1> QED
  BY <1>4, <1>5, <1>6, <1>7, <1>8

\* The other steps touch neither files nor the keys that were held.
LEMMA OthersKeep ==
    ASSUME Inv, NEW name \in Name,
           \/ Select(name) \/ MineStart \/ MineEnd \/ Crash \/ Ready
           \/ UNCHANGED vars
    PROVE  Inv'
PROOF
<1> USE DEF Inv, KeyInv
<1>1. UNCHANGED <<file, held, phrases, keys, faults, damaged>>
  BY DEF Select, MineStart, MineEnd, Crash, Ready, vars
<1>2. TypeOK'
  <2>1. CASE Select(name)
    BY <2>1 DEF Select, TypeOK
  <2>2. CASE MineStart
    BY <2>2 DEF MineStart, TypeOK
  <2>3. CASE MineEnd
    <3>1. miner.key \in 1..MaxKeys
      BY <2>3 DEF MineEnd, TypeOK, Wallet
    <3> QED
      BY <2>3, <3>1 DEF MineEnd, TypeOK
  <2>4. CASE Crash
    BY <2>4 DEF Crash, TypeOK, NoWallets
  <2>5. CASE Ready
    BY <2>5, WalletsAssumption DEF Ready, TypeOK, LoadedDefault
  <2>6. CASE UNCHANGED vars
    BY <2>6 DEF vars, TypeOK
  <2> QED
    BY <2>1, <2>2, <2>3, <2>4, <2>5, <2>6
<1>3. wallets' = wallets \/ (wallets' = NoWallets /\ phase' = "down")
  BY DEF Select, MineStart, MineEnd, Crash, Ready, vars
<1>4. phase' # "down" => phase # "down" /\ wallets' = wallets
  BY DEF Select, MineStart, MineEnd, Crash, Ready, vars
<1>5. FilesCurrent'
  BY <1>1, <1>4 DEF FilesCurrent, Loaded
<1>6. MemoryHeld' /\ FilesHeld' /\ DefaultFirst'
  BY <1>1, <1>3 DEF MemoryHeld, FilesHeld, DefaultFirst, NoWallets
<1>7. EarnedHeld'
  <2>1. CASE MineStart
    <3>1. miner'.key \in held[selected] /\ paid' = paid
      BY <2>1 DEF MineStart, TypeOK, MemoryHeld
    <3> QED
      BY <1>1, <3>1 DEF EarnedHeld, TypeOK
  <2>2. CASE ~MineStart
    <3>1. (paid' \cup {miner'.key}) \ {0} \subseteq (paid \cup {miner.key}) \ {0}
      BY <2>2, Kinds DEF Select, MineEnd, Crash, Ready, vars
    <3> QED
      BY <1>1, <3>1 DEF EarnedHeld
  <2> QED
    BY <2>1, <2>2
<1>8. phase' = "loaded" => phase = "loaded" /\ selected' = selected /\ wallets' = wallets
  BY DEF Select, MineStart, MineEnd, Crash, Ready, vars
<1>9. StartsUnlessDamaged' /\ LoadedDefault'
  BY <1>1, <1>8 DEF StartsUnlessDamaged, LoadedDefault
<1> QED
  BY <1>2, <1>5, <1>6, <1>7, <1>9

-----------------------------------------------------------------------------
\* The theorems.

LEMMA InitInv == Init => Inv
PROOF
<1> SUFFICES ASSUME Init PROVE Inv
  OBVIOUS
<1> USE DEF Init
<1>1. TypeOK
  BY WalletsAssumption DEF TypeOK, NoWallets
<1>2. KeyInv
  BY Kinds DEF KeyInv, FilesCurrent, MemoryHeld, FilesHeld, DefaultFirst, EarnedHeld,
               NoWallets
<1> QED
  BY <1>1, <1>2 DEF Inv, StartsUnlessDamaged, LoadedDefault

LEMMA NextInv == Inv /\ [Next]_vars => Inv'
PROOF
<1> SUFFICES ASSUME Inv, [Next]_vars PROVE Inv'
  OBVIOUS
<1>1. PICK name \in Name :
         \/ Create(name) \/ Recover(name) \/ Import(name) \/ CreateDefault
         \/ SaveEncrypted(name) \/ Export(name)
         \/ LoadEncrypted(name)
         \/ Load
         \/ Select(name) \/ MineStart \/ MineEnd \/ Crash \/ Ready \/ UNCHANGED vars
  BY WalletsAssumption DEF Next
<1> QED
  BY <1>1, CreationsKeep, SavesKeep, LoadEncryptedKeeps, LoadKeeps, OthersKeep

LEMMA SpecInv == Spec => []Inv
PROOF
  BY InitInv, NextInv, PTL DEF Spec

\* The fields of the manager have their types and the active wallet is there,
\* which current_wallet expects.
THEOREM WalletsTypeCorrect == Spec => []TypeOK
PROOF
<1>1. Inv => TypeOK
  BY DEF Inv
<1> QED
  BY <1>1, SpecInv, PTL

\* No operation, crash or restart loses a key whose name was neither imported nor
\* loaded over nor hit by an I/O error (wallet_store.rs).
THEOREM KeysAlwaysSurvive == Spec => []KeysSurvive
PROOF
<1>1. Inv => KeysSurvive
  BY DEF Inv, KeyInv, FilesCurrent, KeysSurvive
<1> QED
  BY <1>1, SpecInv, PTL

\* The node can be started again unless its default wallet was damaged (main.rs).
THEOREM NodeStarts == Spec => []StartsUnlessDamaged
PROOF
<1>1. Inv => StartsUnlessDamaged
  BY DEF Inv
<1> QED
  BY <1>1, SpecInv, PTL

\* What a block pays stays in the node's hands (node.rs "mine", wallet_store.rs).
THEOREM MinersOwnRewards == Spec => []RewardsOwned
PROOF
<1>1. ASSUME Inv PROVE RewardsOwned
  <2> SUFFICES ASSUME phase = "up", NEW key \in (paid \cup {miner.key}) \ {0}
               PROVE  \E name \in Name : \/ wallets[name].key = key
                                         \/ name \in damaged /\ key \in held[name]
    BY DEF RewardsOwned
  <2>1. PICK name \in Name : key \in held[name]
    BY <1>1 DEF Inv, KeyInv, EarnedHeld
  <2>2. CASE name \in damaged
    BY <2>1, <2>2
  <2>3. CASE name \notin damaged
    <3>1. file[name]["json"].key = key /\ wallets[name] = Loaded({})[name]
      BY <1>1, <2>1, <2>3 DEF Inv, KeyInv, FilesCurrent
    <3>2. file[name]["json"] \in Wallet
      BY <1>1, <3>1, Kinds DEF Inv, TypeOK, Format
    <3> QED
      BY <3>1, <3>2 DEF Loaded
  <2> QED
    BY <2>2, <2>3
<1> QED
  BY <1>1, SpecInv, PTL
=============================================================================
