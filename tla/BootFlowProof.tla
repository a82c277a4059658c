--------------------------- MODULE BootFlowProof ----------------------------
(***************************************************************************)
(* The boot path for any options, any EmuNANDs and any number of versions  *)
(* of boot.firm: firmlaunches keep the NAND, the menu's choices are kept,  *)
(* and a PIN mode has its PIN.                                             *)
(*                                                                         *)
(* What a boot decides with is in several copies: config.ini, the memory   *)
(* of the MCU, configData, oldConfig, the menu.  The invariant says which  *)
(* of them agree at each stage of the boot, that a version in the MCU is   *)
(* never newer than boot.firm, and what each copy has to do with what the  *)
(* user last chose and with the NAND of the session.                       *)
(***************************************************************************)
EXTENDS BootFlow, TLAPS

Boots == [nand : {"sys", "emu"}, emu : Nat, noForce : BOOLEAN]
Menus == [single : SUBSET SingleOptions, multi : [MultiOptions -> 0 .. 3], dirty : BOOLEAN]
Choices == [single : SUBSET SingleOptions, multi : [MultiOptions -> 0 .. 3]]

BootTypeOK ==
  /\ ini \in Configs \cup {Absent}
  /\ mcu \in [version : Nat, boot : Boots]
  /\ installed \in Nat \ {0} /\ mcu.version <= installed
  /\ bootType \in {"B9S", "FIRMLAUNCH"} /\ needConfig \in {"create", "modify"}
  /\ pc \in {"off", "read", "decide", "menu", "save", "pin", "choose", "boot", "running"}
  /\ configData \in Configs /\ oldConfig \in [cfg : Configs, boot : Boots]
  /\ bootConfig \in Boots /\ choice \in Boots /\ session \in Boots
  /\ bootMenu \in Menus /\ chosen \in Choices \cup {Absent}

\* After it has read the configuration, ARM9 knows what is stored.
CopiesAgree ==
  /\ pc \in {"decide", "menu", "save", "pin", "choose", "boot"} =>
       /\ mcu.version = installed
       /\ bootType = "B9S" => oldConfig.boot = mcu.boot /\ bootConfig = mcu.boot
  /\ pc \in {"decide", "menu", "save", "pin", "choose"} => bootType = "B9S"
  /\ pc \in {"decide", "menu", "save"} /\ needConfig = "modify" => ini = oldConfig.cfg
  /\ pc \in {"decide", "menu"} => configData = oldConfig.cfg
  /\ pc = "pin" => ini = configData
  /\ pc = "running" => mcu.version # 0
  /\ saving => pc = "running"

Same(boot) == boot.nand = session.nand /\ boot.emu = session.emu

\* The NAND of the session is in the memory of the MCU, and is there to be located.
NandIsKept ==
  /\ session.nand = "emu" => session.emu \in EmuNands
  /\ ~replaced /\ pc # "off" /\ (pc = "running" \/ bootType = "FIRMLAUNCH") =>
       mcu.version = installed /\ Same(mcu.boot)
  /\ ~replaced /\ bootType = "FIRMLAUNCH" /\ pc \in {"boot", "running"} => Same(choice)

\* A configuration has the options of the list as the menu had them.
Keeps(conf, menu) ==
  /\ conf.config \cap (0 .. NUMCONFIGURABLE - 1) = menu.single \cap (0 .. NUMCONFIGURABLE - 1)
  /\ \A o \in MultiOptions \cap (0 .. multiOptionsAmount - 1) : conf.multi[o] = menu.multi[o]

\* config.ini has them, but while it is written, and so has what was read from it.
OptionsAreKept ==
  /\ chosen # Absent =>
       /\ mcu.version # 0
       /\ ini # Absent => Keeps(ini, chosen)
       /\ ini = Absent => saving
       /\ pc \notin {"off", "read", "save"} => Keeps(configData, chosen)
  /\ pc = "save" => Keeps(configData, bootMenu)

\* The PIN that a configuration asks for is the one of the file.
HasPin(conf) == Multi(conf, PIN) # 0 => pinFile = Digits(Multi(conf, PIN))

PinsFit ==
  /\ ~unpinned /\ pc # "pin" /\ ini # Absent => HasPin(ini)
  /\ ~unpinned /\ pc \notin {"save", "pin"} => HasPin(configData)
  /\ pc \in {"menu", "save", "pin"} /\ pinExists =>
       Multi(oldConfig.cfg, PIN) # 0 /\ pinFile = Digits(Multi(oldConfig.cfg, PIN))

BInv == BootTypeOK /\ CopiesAgree /\ NandIsKept /\ OptionsAreKept /\ PinsFit
-----------------------------------------------------------------------------
USE DEF AUTOBOOTEMU, ENABLEDSIEXTFILTER, NUMCONFIGURABLE, DEFAULTEMU, PIN, singleOptionsAmount,
        multiOptionsAmount, stored, ram, bootHistory

\* What is used of the types.
LEMMA SysAndDefaults ==
  Sys \in Boots /\ Defaults \in Configs /\ NoMenu \in Menus /\ Multi(Defaults, PIN) = 0
BY DEF Sys, Boots, Defaults, Configs, NoMenu, Menus, Multi

\* The fields of the records that hold a configuration.
LEMMA ConfigFields ==
  ASSUME NEW c \in Configs
  PROVE  /\ c.config \subseteq SingleOptions /\ c.multi \in [MultiOptions -> 0 .. 3]
         /\ \A o : Multi(c, o) \in Nat
BY DEF Configs, Multi

\* And of those that name a NAND.
LEMMA BootFields ==
  ASSUME NEW b \in Boots
  PROVE  b.nand \in {"sys", "emu"} /\ b.emu \in Nat /\ b.noForce \in BOOLEAN
BY DEF Boots

LEMMA BootChanges ==
  ASSUME NEW b \in Boots
  PROVE  /\ [b EXCEPT !.noForce = FALSE] \in Boots
         /\ \A x \in BOOLEAN : [b EXCEPT !.noForce = x] \in Boots
         /\ \A n \in Nat : [b EXCEPT !.emu = n] \in Boots
BY DEF Boots

\* The menu's copy stays one when an option is changed.
LEMMA MenuChanges ==
  ASSUME NEW m \in Menus
  PROVE  /\ \A i \in SingleOptions :
              /\ [m EXCEPT !.dirty = TRUE, !.single = IF i \in @ THEN @ \ {i} ELSE @ \cup {i}] \in Menus
              /\ \A on \in BOOLEAN :
                   [m EXCEPT !.dirty = TRUE, !.single = IF on THEN @ \cup {i} ELSE @ \ {i}] \in Menus
         /\ \A o \in MultiOptions, v \in 0 .. 3 : [m EXCEPT !.dirty = TRUE, !.multi[o] = v] \in Menus
BY DEF Menus

LEMMA LocatedIsBoot ==
  ASSUME NEW c \in Boots
  PROVE  /\ Located(c) \in Boots /\ (Located(c).nand = "emu" => Located(c).emu \in EmuNands)
         /\ (c.nand = "emu" /\ c.emu \in EmuNands) \/ c.nand = "sys" => Located(c) = c
<1>1. CASE c.nand = "sys" \/ c.emu \in EmuNands
  BY <1>1, BootFields DEF Located
<1>2. CASE c.nand = "emu" /\ c.emu \notin EmuNands /\ 0 \in EmuNands
  BY <1>2 DEF Located, Boots
<1>3. CASE c.nand = "emu" /\ c.emu \notin EmuNands /\ 0 \notin EmuNands
  BY <1>3 DEF Located, Boots
<1> QED  BY <1>1, <1>2, <1>3, BootFields


\* What is left of config.ini when power is cut is a configuration, or none.
LEMMA TornIsConfig ==
  ASSUME NEW old \in Configs \cup {Absent}, NEW new \in Configs
  PROVE  Torn(old, new) \subseteq Configs \cup {Absent}
<1>1. ASSUME NEW c \in SUBSET (new.config \cup (IF old = Absent THEN {} ELSE old.config)),
             NEW m \in [MultiOptions -> 0 .. 3]
      PROVE  [config |-> c, multi |-> m] \in Configs
  <2>1. c \subseteq SingleOptions
    BY ConfigFields
  <2> QED  BY <2>1 DEF Configs
<1> QED  BY <1>1 DEF Torn

\* The configuration is read, or the default one is made, and the MCU's memory is as new as boot.firm.
LEMMA ReadConfigKeeps ==
  ASSUME BootConstantsOK, BInv, ReadConfig
  PROVE  BInv'
<1> USE DEF ReadConfig, BInv, ReadMcu, WrittenMcu
<1>a. /\ mcu' \in [version : Nat, boot : Boots] /\ mcu'.version = installed
      /\ mcu.version = installed => mcu' = mcu
      /\ mcu.version # installed => mcu'.boot = Sys
      /\ mcu'.boot \in Boots
  <2>1. [version |-> installed, boot |-> Sys] \in [version : Nat, boot : Boots]
    BY SysAndDefaults DEF BootTypeOK
  <2> QED  BY <2>1 DEF BootTypeOK
<1>b. /\ pc = "read" /\ bootConfig' = mcu'.boot /\ oldConfig' = [cfg |-> configData', boot |-> mcu'.boot]
      /\ needConfig' = (IF mcu.version # 0 /\ ini # Absent THEN "modify" ELSE "create")
      /\ configData' = (IF mcu.version # 0 /\ ini # Absent THEN ini ELSE Defaults)
      /\ bootType # "FIRMLAUNCH" => pc' = "decide" /\ choice' = Sys
      /\ bootType = "FIRMLAUNCH" => pc' \in {"boot", "off"} /\ choice' = [mcu'.boot EXCEPT !.noForce = FALSE]
      /\ bootType = "FIRMLAUNCH" /\ pc' = "boot" => mcu.version # 0 /\ ini # Absent
      /\ UNCHANGED <<ini, pinFile, installed, bootType, bootenv, firm, pinExists, bootMenu, saving, bootHistory>>
  OBVIOUS
<1>c. configData' \in Configs /\ choice' \in Boots /\ oldConfig' \in [cfg : Configs, boot : Boots]
  <2>1. configData' \in Configs
    BY <1>b, SysAndDefaults DEF BootTypeOK
  <2>2. choice' \in Boots
    BY <1>a, <1>b, SysAndDefaults, BootChanges DEF BootTypeOK
  <2> QED  BY <1>a, <1>b, <2>1, <2>2
<1> HIDE DEF ReadConfig, ReadMcu
<1>1. BootTypeOK'
  BY <1>a, <1>b, <1>c DEF BootTypeOK
<1>2. CopiesAgree'
  BY <1>a, <1>b DEF CopiesAgree, BootTypeOK
<1>3. NandIsKept'
  BY <1>a, <1>b, BootFields DEF NandIsKept, Same, BootTypeOK, Boots
<1>4. OptionsAreKept'
  BY <1>a, <1>b DEF OptionsAreKept, Keeps, CopiesAgree, BootTypeOK
<1>5. PinsFit'
  BY <1>a, <1>b, SysAndDefaults DEF PinsFit, HasPin, BootTypeOK
<1> QED  BY <1>1, <1>2, <1>3, <1>4, <1>5

\* The last boot's options are forced.
LEMMA ForceOptionsKeeps ==
  ASSUME BootConstantsOK, BInv, ForceOptions
  PROVE  BInv'
<1> USE DEF ForceOptions, BInv
<1>1. BootTypeOK'
  <2>1. choice' \in Boots
    BY BootChanges, SysAndDefaults DEF BootTypeOK
  <2> QED  BY <2>1 DEF BootTypeOK
<1>2. CopiesAgree'
  BY SysAndDefaults DEF BootTypeOK, CopiesAgree
<1>3. NandIsKept'
  BY SysAndDefaults DEF BootTypeOK, NandIsKept, Same, CopiesAgree
<1>4. OptionsAreKept'
  BY SysAndDefaults DEF BootTypeOK, OptionsAreKept, Keeps, CopiesAgree
<1>5. PinsFit'
  BY SysAndDefaults DEF BootTypeOK, PinsFit, HasPin, CopiesAgree
<1> QED  BY <1>1, <1>2, <1>3, <1>4, <1>5

\* The menu begins with what was read, and the PIN that was entered is the one in force.
LEMMA AskPinKeeps ==
  ASSUME BootConstantsOK, BInv, AskPin
  PROVE  BInv'
<1> USE DEF AskPin, BInv
<1>1. BootTypeOK'
  <2>1. bootMenu' \in Menus
    <3>1. [single |-> configData.config, multi |-> configData.multi, dirty |-> needConfig = "create"] \in Menus
      BY ConfigFields DEF BootTypeOK, Menus
    <3> QED  BY <3>1 DEF BootTypeOK
  <2> QED  BY <2>1 DEF BootTypeOK
<1>2. CopiesAgree'
  BY SysAndDefaults DEF BootTypeOK, CopiesAgree
<1>3. NandIsKept'
  BY SysAndDefaults DEF BootTypeOK, NandIsKept, Same, CopiesAgree
<1>4. OptionsAreKept'
  BY SysAndDefaults DEF BootTypeOK, OptionsAreKept, Keeps, CopiesAgree
<1>5. PinsFit'
  BY SysAndDefaults DEF BootTypeOK, PinsFit, HasPin, CopiesAgree
<1> QED  BY <1>1, <1>2, <1>3, <1>4, <1>5

\* The user chooses the NAND.
LEMMA ChooseNandKeeps ==
  ASSUME BootConstantsOK, BInv, ChooseNand
  PROVE  BInv'
<1> USE DEF ChooseNand, BInv, AskedNand
<1>1. BootTypeOK'
  <2>1. choice' \in Boots
    <3>1. Multi(configData, DEFAULTEMU) \in Nat
      BY ConfigFields DEF BootTypeOK
    <3>2. \A l1, safe \in BOOLEAN : AskedNand(l1, safe) \in Boots
      BY SysAndDefaults DEF Boots
    <3> HIDE DEF AskedNand
    <3>3. PICK l1 \in BOOLEAN, safe \in BOOLEAN, dpad \in {0, 1, Multi(configData, DEFAULTEMU)} :
            choice' = IF AskedNand(l1, safe).nand = "emu" THEN [AskedNand(l1, safe) EXCEPT !.emu = dpad]
                      ELSE AskedNand(l1, safe)
      OBVIOUS
    <3>4. dpad \in Nat /\ AskedNand(l1, safe) \in Boots
      BY <3>1, <3>2
    <3> QED  BY <3>3, <3>4, BootChanges
  <2> QED  BY <2>1 DEF BootTypeOK
<1>2. CopiesAgree'
  BY SysAndDefaults DEF BootTypeOK, CopiesAgree
<1>3. NandIsKept'
  BY SysAndDefaults DEF BootTypeOK, NandIsKept, Same, CopiesAgree
<1>4. OptionsAreKept'
  BY SysAndDefaults DEF BootTypeOK, OptionsAreKept, Keeps, CopiesAgree
<1>5. PinsFit'
  BY SysAndDefaults DEF BootTypeOK, PinsFit, HasPin, CopiesAgree
<1> QED  BY <1>1, <1>2, <1>3, <1>4, <1>5

\* The NAND is located, and remembered unless it is the one that was read.
LEMMA BootKeeps ==
  ASSUME BootConstantsOK, BInv, Boot
  PROVE  BInv'
<1> USE DEF Boot, BInv, Located, UpdatesMcu, WrittenMcu
<1> DEFINE boot == Located(choice)
<1>a. /\ boot \in Boots /\ (boot.nand = "emu" => boot.emu \in EmuNands)
      /\ (choice.nand = "emu" /\ choice.emu \in EmuNands) \/ choice.nand = "sys" => boot = choice
      /\ choice.nand \in {"sys", "emu"}
  BY LocatedIsBoot, BootFields DEF BootTypeOK
<1>b. /\ pc = "boot" /\ pc' = "running" /\ choice' = boot
      /\ bootType = "FIRMLAUNCH" => UNCHANGED <<mcu, session, replaced, bootConfig>>
      /\ bootType # "FIRMLAUNCH" =>
           /\ \/ mcu' = [version |-> installed, boot |-> boot]
              \/ mcu' = mcu /\ boot = oldConfig.boot
           /\ bootConfig' = boot /\ session' = boot /\ replaced' = FALSE
      /\ oldConfig' = [cfg |-> Defaults, boot |-> Sys]
      /\ UNCHANGED <<ini, pinFile, installed, bootType, bootenv, firm, configData, needConfig,
                     pinExists, bootMenu, saving, chosen, unpinned>>
  BY DEF BootTypeOK
<1> HIDE DEF boot, Boot
<1>c. /\ mcu' \in [version : Nat, boot : Boots] /\ mcu'.version = installed
      /\ bootType # "FIRMLAUNCH" => mcu'.boot = boot
  BY <1>a, <1>b DEF BootTypeOK, CopiesAgree
<1>1. BootTypeOK'
  <2>1. oldConfig' \in [cfg : Configs, boot : Boots]
    BY <1>b, SysAndDefaults
  <2> QED  BY <1>a, <1>b, <1>c, <2>1 DEF BootTypeOK
<1>2. CopiesAgree'
  BY <1>b, <1>c DEF CopiesAgree, BootTypeOK
<1>3. NandIsKept'
  BY <1>a, <1>b, <1>c DEF NandIsKept, Same, BootTypeOK
<1>4. OptionsAreKept'
  BY <1>b, <1>c DEF OptionsAreKept, Keeps, CopiesAgree, BootTypeOK
<1>5. PinsFit'
  BY <1>b DEF PinsFit, HasPin, BootTypeOK
<1> QED  BY <1>1, <1>2, <1>3, <1>4, <1>5

\* An option is changed in the menu, whose copy is not configData.
LEMMA ToggleKeeps ==
  ASSUME BootConstantsOK, BInv, Toggle
  PROVE  BInv'
<1> USE DEF Toggle, BInv, InMenu
<1>1. BootTypeOK'
  <2>1. bootMenu \in Menus
    BY DEF BootTypeOK
  <2>2. ASSUME NEW i \in SingleOptions,
               bootMenu' = [bootMenu EXCEPT !.dirty = TRUE, !.single = IF i \in @ THEN @ \ {i} ELSE @ \cup {i}]
        PROVE  bootMenu' \in Menus
    <3>1. [bootMenu EXCEPT !.dirty = TRUE, !.single = IF i \in @ THEN @ \ {i} ELSE @ \cup {i}] \in Menus
      BY <2>1, MenuChanges, Zenon
    <3> QED  BY <2>2, <3>1
  <2>3. ASSUME NEW o \in MultiOptions, NEW v \in 0 .. 3, bootMenu' = [bootMenu EXCEPT !.dirty = TRUE, !.multi[o] = v]
        PROVE  bootMenu' \in Menus
    BY <2>1, <2>3, MenuChanges
  <2>4. \/ \E i \in SingleOptions :
             bootMenu' = [bootMenu EXCEPT !.dirty = TRUE, !.single = IF i \in @ THEN @ \ {i} ELSE @ \cup {i}]
        \/ \E o \in MultiOptions, v \in 0 .. 3 : bootMenu' = [bootMenu EXCEPT !.dirty = TRUE, !.multi[o] = v]
    BY Zenon
  <2> QED  BY <2>2, <2>3, <2>4 DEF BootTypeOK
<1>2. CopiesAgree'
  BY SysAndDefaults DEF BootTypeOK, CopiesAgree
<1>3. NandIsKept'
  BY SysAndDefaults DEF BootTypeOK, NandIsKept, Same, CopiesAgree
<1>4. OptionsAreKept'
  BY SysAndDefaults DEF BootTypeOK, OptionsAreKept, Keeps, CopiesAgree
<1>5. PinsFit'
  BY SysAndDefaults DEF BootTypeOK, PinsFit, HasPin, CopiesAgree
<1> QED  BY <1>1, <1>2, <1>3, <1>4, <1>5

\* Or one that is not in its list.
LEMMA SetTwlFilterKeeps ==
  ASSUME BootConstantsOK, BInv, SetTwlFilter
  PROVE  BInv'
<1> USE DEF SetTwlFilter, BInv, InMenu
<1>1. BootTypeOK'
  <2>1. PICK on \in BOOLEAN :
          bootMenu' = [bootMenu EXCEPT !.dirty = TRUE, !.single = IF on THEN @ \cup {7} ELSE @ \ {7}]
    OBVIOUS
  <2>2. 7 \in SingleOptions /\ bootMenu \in Menus
    BY DEF BootTypeOK
  <2>3. [bootMenu EXCEPT !.dirty = TRUE, !.single = IF on THEN @ \cup {7} ELSE @ \ {7}] \in Menus
    BY <2>2, MenuChanges, Zenon
  <2> QED  BY <2>1, <2>3 DEF BootTypeOK
<1>2. CopiesAgree'
  BY SysAndDefaults DEF BootTypeOK, CopiesAgree
<1>3. NandIsKept'
  BY SysAndDefaults DEF BootTypeOK, NandIsKept, Same, CopiesAgree
<1>4. OptionsAreKept'
  BY SysAndDefaults DEF BootTypeOK, OptionsAreKept, Keeps, CopiesAgree
<1>5. PinsFit'
  BY SysAndDefaults DEF BootTypeOK, PinsFit, HasPin, CopiesAgree
<1> QED  BY <1>1, <1>2, <1>3, <1>4, <1>5

\* Or several.
LEMMA ApplyProfileKeeps ==
  ASSUME BootConstantsOK, BInv, ApplyProfile
  PROVE  BInv'
<1> USE DEF ApplyProfile, BInv, InMenu, ProfileSingles, ProfileMultis
<1>1. BootTypeOK'
  <2>1. ASSUME NEW on \in SUBSET (1 .. 3 \cap SingleOptions),
               NEW value \in [{1, 2, 4} \cap MultiOptions -> 0 .. 1]
        PROVE  [single |-> (bootMenu.single \ (1 .. 3)) \cup on,
                multi |-> [o \in MultiOptions |->
                             IF o \in {1, 2, 4} THEN value[o] ELSE bootMenu.multi[o]],
                dirty |-> TRUE] \in Menus
    <3>1. (bootMenu.single \ (1 .. 3)) \cup on \in SUBSET SingleOptions
      BY DEF BootTypeOK, Menus
    <3>2. \A o \in MultiOptions :
            (IF o \in {1, 2, 4} THEN value[o] ELSE bootMenu.multi[o]) \in 0 .. 3
      BY DEF BootTypeOK, Menus
    <3> QED  BY <3>1, <3>2 DEF Menus
  <2>2. bootMenu' \in Menus
    BY <2>1, Zenon
  <2> QED  BY <2>2 DEF BootTypeOK
<1>2. CopiesAgree'
  BY SysAndDefaults DEF BootTypeOK, CopiesAgree
<1>3. NandIsKept'
  BY SysAndDefaults DEF BootTypeOK, NandIsKept, Same, CopiesAgree
<1>4. OptionsAreKept'
  BY SysAndDefaults DEF BootTypeOK, OptionsAreKept, Keeps, CopiesAgree
<1>5. PinsFit'
  BY SysAndDefaults DEF BootTypeOK, PinsFit, HasPin, CopiesAgree
<1> QED  BY <1>1, <1>2, <1>3, <1>4, <1>5

\* The menu's copy becomes the configuration.
LEMMA LeaveMenuKeeps ==
  ASSUME BootConstantsOK, BInv, LeaveMenu
  PROVE  BInv'
<1> USE DEF LeaveMenu, BInv, MenuConfig, NoMenu
<1>1. BootTypeOK'
  <2>1. MenuConfig \in Configs
    BY DEF BootTypeOK, Configs, Menus
  <2> HIDE DEF MenuConfig
  <2> QED  BY <2>1, SysAndDefaults DEF BootTypeOK
<1>2. CopiesAgree'
  BY SysAndDefaults DEF BootTypeOK, CopiesAgree
<1>3. NandIsKept'
  BY SysAndDefaults DEF BootTypeOK, NandIsKept, Same, CopiesAgree
<1>4. OptionsAreKept'
  <2>1. CASE pc' = "choose" /\ UNCHANGED <<ini, configData, mcu, saving, chosen>>
    BY <2>1 DEF OptionsAreKept, Keeps
  <2>2. CASE pc' = "save" /\ configData' = MenuConfig
             /\ UNCHANGED <<ini, mcu, saving, chosen, bootMenu>>
    <3>1. PICK m \in Configs : m = MenuConfig
      <4>1. MenuConfig \in Configs
        BY DEF BootTypeOK, Configs, Menus
      <4> QED  BY <4>1, Zenon
    <3>2. /\ m.config \cap (0 .. 5) = bootMenu.single \cap (0 .. 5)
          /\ \A o \in MultiOptions \cap (0 .. 5) : m.multi[o] = bootMenu.multi[o]
      BY <3>1
    <3>3. configData' = m
      BY <2>2, <3>1
    <3> HIDE DEF MenuConfig, LeaveMenu
    <3> QED  BY <2>2, <3>2, <3>3 DEF OptionsAreKept, Keeps
  <2> QED  BY <2>1, <2>2
<1>5. PinsFit'
  BY SysAndDefaults DEF BootTypeOK, PinsFit, HasPin, CopiesAgree
<1> QED  BY <1>1, <1>2, <1>3, <1>4, <1>5

\* It is saved, and differs from what was there in no option that is in force.
LEMMA SaveConfigKeeps ==
  ASSUME BootConstantsOK, BInv, SaveConfig
  PROVE  BInv'
<1> USE DEF SaveConfig, BInv, UpdatesIni, NoMenu
<1>1. BootTypeOK'
  <2>1. [single |-> bootMenu.single, multi |-> bootMenu.multi] \in Choices
    BY DEF BootTypeOK, Menus, Choices
  <2> QED  BY <2>1, SysAndDefaults DEF BootTypeOK
<1>2. CopiesAgree'
  BY SysAndDefaults DEF BootTypeOK, CopiesAgree
<1>3. NandIsKept'
  BY SysAndDefaults DEF BootTypeOK, NandIsKept, Same, CopiesAgree
<1>4. OptionsAreKept'
  <2>1. ini' = configData /\ configData # Absent
    BY DEF BootTypeOK, CopiesAgree, BootConstantsOK
  <2>2. Keeps(configData, chosen')
    BY DEF OptionsAreKept, Keeps
  <2>3. mcu.version # 0 /\ UNCHANGED <<mcu, configData>> /\ pc' = "pin"
    BY DEF CopiesAgree, BootTypeOK
  <2> QED  BY <2>1, <2>2, <2>3 DEF OptionsAreKept, Keeps
<1>5. PinsFit'
  BY SysAndDefaults DEF BootTypeOK, PinsFit, HasPin, CopiesAgree
<1> QED  BY <1>1, <1>2, <1>3, <1>4, <1>5

\* The file of the PIN is made to fit.
LEMMA UpdatePinKeeps ==
  ASSUME BootConstantsOK, BInv, UpdatePin
  PROVE  BInv'
<1> USE DEF UpdatePin, BInv, MayKeepPin
<1>1. BootTypeOK'
  BY SysAndDefaults DEF BootTypeOK
<1>2. CopiesAgree'
  BY SysAndDefaults DEF BootTypeOK, CopiesAgree
<1>3. NandIsKept'
  BY SysAndDefaults DEF BootTypeOK, NandIsKept, Same, CopiesAgree
<1>4. OptionsAreKept'
  BY SysAndDefaults DEF BootTypeOK, OptionsAreKept, Keeps, CopiesAgree
<1>5. PinsFit'
  BY SysAndDefaults DEF BootTypeOK, PinsFit, HasPin, CopiesAgree
<1> QED  BY <1>1, <1>2, <1>3, <1>4, <1>5

\* The console is turned on.
LEMMA PowerOnKeeps ==
  ASSUME BootConstantsOK, BInv, PowerOn
  PROVE  BInv'
<1> USE DEF PowerOn, BInv, NoRam
<1>1. BootTypeOK'
  BY SysAndDefaults DEF BootTypeOK
<1>2. CopiesAgree'
  BY SysAndDefaults DEF BootTypeOK, CopiesAgree
<1>3. NandIsKept'
  BY SysAndDefaults DEF BootTypeOK, NandIsKept, Same, CopiesAgree
<1>4. OptionsAreKept'
  BY SysAndDefaults DEF BootTypeOK, OptionsAreKept, Keeps, CopiesAgree
<1>5. PinsFit'
  BY SysAndDefaults DEF BootTypeOK, PinsFit, HasPin, CopiesAgree
<1> QED  BY <1>1, <1>2, <1>3, <1>4, <1>5

\* It reboots.
LEMMA RebootKeeps ==
  ASSUME BootConstantsOK, BInv, Reboot
  PROVE  BInv'
<1> USE DEF Reboot, BInv, NoRam
<1>1. BootTypeOK'
  BY SysAndDefaults DEF BootTypeOK
<1>2. CopiesAgree'
  BY SysAndDefaults DEF BootTypeOK, CopiesAgree
<1>3. NandIsKept'
  BY SysAndDefaults DEF BootTypeOK, NandIsKept, Same, CopiesAgree
<1>4. OptionsAreKept'
  BY SysAndDefaults DEF BootTypeOK, OptionsAreKept, Keeps, CopiesAgree
<1>5. PinsFit'
  BY SysAndDefaults DEF BootTypeOK, PinsFit, HasPin, CopiesAgree
<1> QED  BY <1>1, <1>2, <1>3, <1>4, <1>5

\* A FIRM is launched: all that is left is in the MCU's memory and in config.ini.
LEMMA FirmlaunchKeeps ==
  ASSUME BootConstantsOK, BInv, Firmlaunch
  PROVE  BInv'
<1> USE DEF Firmlaunch, BInv, NoRam
<1>1. BootTypeOK'
  BY SysAndDefaults DEF BootTypeOK
<1>2. CopiesAgree'
  BY SysAndDefaults DEF BootTypeOK, CopiesAgree
<1>3. NandIsKept'
  BY SysAndDefaults DEF BootTypeOK, NandIsKept, Same, CopiesAgree
<1>4. OptionsAreKept'
  BY SysAndDefaults DEF BootTypeOK, OptionsAreKept, Keeps, CopiesAgree
<1>5. PinsFit'
  BY SysAndDefaults DEF BootTypeOK, PinsFit, HasPin, CopiesAgree
<1> QED  BY <1>1, <1>2, <1>3, <1>4, <1>5

\* Rosalina begins to save.
LEMMA SetSizeKeeps ==
  ASSUME BootConstantsOK, BInv, SetSize
  PROVE  BInv'
<1> USE DEF SetSize, BInv
<1>1. BootTypeOK'
  BY SysAndDefaults DEF BootTypeOK
<1>2. CopiesAgree'
  BY SysAndDefaults DEF BootTypeOK, CopiesAgree
<1>3. NandIsKept'
  BY SysAndDefaults DEF BootTypeOK, NandIsKept, Same, CopiesAgree
<1>4. OptionsAreKept'
  BY SysAndDefaults DEF BootTypeOK, OptionsAreKept, Keeps, CopiesAgree
<1>5. PinsFit'
  BY SysAndDefaults DEF BootTypeOK, PinsFit, HasPin, CopiesAgree
<1> QED  BY <1>1, <1>2, <1>3, <1>4, <1>5

\* What it saves is what was read.
LEMMA WriteSettingsKeeps ==
  ASSUME BootConstantsOK, BInv, WriteSettings
  PROVE  BInv'
<1> USE DEF WriteSettings, BInv
<1>1. BootTypeOK'
  BY SysAndDefaults DEF BootTypeOK
<1>2. CopiesAgree'
  BY SysAndDefaults DEF BootTypeOK, CopiesAgree
<1>3. NandIsKept'
  BY SysAndDefaults DEF BootTypeOK, NandIsKept, Same, CopiesAgree
<1>4. OptionsAreKept'
  <2>1. ini' = configData /\ ini' # Absent
    BY DEF BootTypeOK, BootConstantsOK
  <2> QED  BY <2>1 DEF OptionsAreKept, Keeps
<1>5. PinsFit'
  BY SysAndDefaults DEF BootTypeOK, PinsFit, HasPin, CopiesAgree
<1> QED  BY <1>1, <1>2, <1>3, <1>4, <1>5

\* Power is lost, maybe before it has saved.
LEMMA LosePowerKeeps ==
  ASSUME BootConstantsOK, BInv, LosePower
  PROVE  BInv'
<1> USE DEF LosePower, BInv, NoRam
<1>1. BootTypeOK'
  <2>1. ini' \in Configs \cup {Absent}
    BY TornIsConfig DEF BootTypeOK
  <2> QED  BY <2>1, SysAndDefaults DEF BootTypeOK
<1>2. CopiesAgree'
  BY SysAndDefaults DEF BootTypeOK, CopiesAgree
<1>3. NandIsKept'
  BY SysAndDefaults DEF BootTypeOK, NandIsKept, Same, CopiesAgree
<1>4. OptionsAreKept'
  <2>1. chosen' # Absent => ini' = ini /\ ini # Absent /\ chosen' = chosen
    OBVIOUS
  <2>2. pc' = "off" /\ mcu' = mcu
    OBVIOUS
  <2> HIDE DEF LosePower
  <2> QED  BY <2>1, <2>2 DEF OptionsAreKept, Keeps
<1>5. PinsFit'
  <2>1. ~unpinned' => ~unpinned /\ pc \notin {"save", "pin"} /\ UNCHANGED <<ini, pinFile>>
    OBVIOUS
  <2>2. pc' = "off" /\ configData' = Defaults
    OBVIOUS
  <2> HIDE DEF LosePower
  <2> QED  BY <2>1, <2>2, SysAndDefaults DEF PinsFit, HasPin
<1> QED  BY <1>1, <1>2, <1>3, <1>4, <1>5

\* boot.firm is replaced by a newer one.
LEMMA ReplaceFirmKeeps ==
  ASSUME BootConstantsOK, BInv, ReplaceFirm
  PROVE  BInv'
<1> USE DEF ReplaceFirm, BInv
<1>1. BootTypeOK'
  BY SysAndDefaults DEF BootTypeOK
<1>2. CopiesAgree'
  BY SysAndDefaults DEF BootTypeOK, CopiesAgree
<1>3. NandIsKept'
  BY SysAndDefaults DEF BootTypeOK, NandIsKept, Same, CopiesAgree
<1>4. OptionsAreKept'
  BY SysAndDefaults DEF BootTypeOK, OptionsAreKept, Keeps, CopiesAgree
<1>5. PinsFit'
  BY SysAndDefaults DEF BootTypeOK, PinsFit, HasPin, CopiesAgree
<1> QED  BY <1>1, <1>2, <1>3, <1>4, <1>5

\* config.ini is edited: the user has chosen anew.
LEMMA EditIniKeeps ==
  ASSUME BootConstantsOK, BInv, EditIni
  PROVE  BInv'
<1> USE DEF EditIni, BInv
<1>1. BootTypeOK'
  <2>1. ini' \in Configs \cup {Absent}
    BY DEF BootTypeOK, Configs
  <2> QED  BY <2>1 DEF BootTypeOK
<1>2. CopiesAgree'
  BY SysAndDefaults DEF BootTypeOK, CopiesAgree
<1>3. NandIsKept'
  BY SysAndDefaults DEF BootTypeOK, NandIsKept, Same, CopiesAgree
<1>4. OptionsAreKept'
  BY SysAndDefaults DEF BootTypeOK, OptionsAreKept, Keeps, CopiesAgree
<1>5. PinsFit'
  BY SysAndDefaults DEF BootTypeOK, PinsFit, HasPin, CopiesAgree
<1> QED  BY <1>1, <1>2, <1>3, <1>4, <1>5

\* The MCU's memory is lost.
LEMMA RemoveBatteryKeeps ==
  ASSUME BootConstantsOK, BInv, RemoveBattery
  PROVE  BInv'
<1> USE DEF RemoveBattery, BInv
<1>1. BootTypeOK'
  <2>1. mcu' \in [version : Nat, boot : Boots] /\ mcu'.version = 0
    BY SysAndDefaults
  <2> QED  BY <2>1 DEF BootTypeOK
<1>2. CopiesAgree'
  BY SysAndDefaults DEF BootTypeOK, CopiesAgree
<1>3. NandIsKept'
  <2>1. pc' = "off" /\ UNCHANGED <<session, bootType>> /\ bootType \in {"B9S", "FIRMLAUNCH"}
    BY DEF BootTypeOK
  <2> QED  BY <2>1 DEF NandIsKept
<1>4. OptionsAreKept'
  BY SysAndDefaults DEF BootTypeOK, OptionsAreKept, Keeps, CopiesAgree
<1>5. PinsFit'
  BY SysAndDefaults DEF BootTypeOK, PinsFit, HasPin, CopiesAgree
<1> QED  BY <1>1, <1>2, <1>3, <1>4, <1>5

LEMMA BootInitHolds ==
  ASSUME BootInit
  PROVE  BInv
<1> USE SysAndDefaults DEF BootInit
<1>1. BootTypeOK
  <2>1. mcu \in [version : Nat, boot : Boots] /\ oldConfig \in [cfg : Configs, boot : Boots]
    OBVIOUS
  <2> QED  BY <2>1 DEF BootTypeOK
<1>2. CopiesAgree /\ OptionsAreKept
  BY DEF CopiesAgree, OptionsAreKept
<1>3. NandIsKept /\ PinsFit
  BY DEF NandIsKept, PinsFit, HasPin, Sys
<1> QED  BY <1>1, <1>2, <1>3 DEF BInv

LEMMA BootNextKeeps ==
  ASSUME BootConstantsOK, BInv, [BootNext]_bootVars
  PROVE  BInv'
<1>1. CASE BootNext
  BY <1>1, ReadConfigKeeps, ForceOptionsKeeps, AskPinKeeps, ChooseNandKeeps, BootKeeps, ToggleKeeps,
     SetTwlFilterKeeps, ApplyProfileKeeps, LeaveMenuKeeps, SaveConfigKeeps,
     UpdatePinKeeps, PowerOnKeeps, RebootKeeps,
     FirmlaunchKeeps, SetSizeKeeps, WriteSettingsKeeps, LosePowerKeeps, ReplaceFirmKeeps, EditIniKeeps,
     RemoveBatteryKeeps
  DEF BootNext
<1>2. CASE UNCHANGED bootVars
  BY <1>2
  DEF bootVars, BInv, BootTypeOK, CopiesAgree, NandIsKept, Same, OptionsAreKept, Keeps, PinsFit, HasPin
<1> QED  BY <1>1, <1>2

LEMMA BootInvariant ==
  ASSUME BootConstantsOK
  PROVE  BootSpec => []BInv
BY BootInitHolds, BootNextKeeps, PTL DEF BootSpec

\* A FIRM that the running system launches uses the NAND that the system was booted
\* from (main.c, emunand.c), however often the console has been rebooted, its settings
\* changed and its power lost before, unless boot.firm was replaced since.
THEOREM LaunchedFirmsKeepNand ==
  ASSUME BootConstantsOK
  PROVE  BootSpec => []FirmlaunchKeepsNand
<1>1. BInv => FirmlaunchKeepsNand
  BY DEF BInv, NandIsKept, Same, FirmlaunchKeepsNand
<1> QED  BY <1>1, BootInvariant, PTL

\* What the user left the menu with is in force at each boot (config.c), also after
\* Rosalina has saved settings or lost power while it did.
THEOREM MenuIsObeyed ==
  ASSUME BootConstantsOK
  PROVE  BootSpec => []ChoiceIsKept
<1>1. BInv => ChoiceIsKept
  BY DEF BInv, OptionsAreKept, Keeps, ChoiceIsKept
<1> QED  BY <1>1, BootInvariant, PTL

\* A PIN mode in config.ini has a PIN of its length (pin.c), over all boots, choices and
\* power cuts, but for the cut between the write of config.ini and that of the PIN
\* (config.c:3556, 3560) and an edit by hand: from then on until the menu is next gone
\* through to the end nothing is claimed.
THEOREM PinModesHavePins ==
  ASSUME BootConstantsOK
  PROVE  BootSpec => []PinIsAsked
<1>1. BInv => PinIsAsked
  BY DEF BInv, PinsFit, HasPin, PinIsAsked
<1> QED  BY <1>1, BootInvariant, PTL
=============================================================================
