------------------------------ MODULE BootFlow ------------------------------
(***************************************************************************)
(* One boot after another: how ARM9 reads the configuration from the SD     *)
(* card and the boot configuration from the MCU's memory, lets the user     *)
(* change it, chooses the NAND to start and remembers the choice            *)
(* (arm9/source/main.c, config.c, pin.c, emunand.c), and what happens       *)
(* meanwhile: Rosalina saves settings, FIRMs are launched, the console      *)
(* reboots or loses power, the user replaces boot.firm or edits config.ini. *)
(***************************************************************************)
EXTENDS Naturals, FiniteSets, TLC

CONSTANTS
  SingleOptions,  \* bits of CfgData.config that are followed, of 0 .. 9
  MultiOptions,   \* options of CfgData.multiConfig that are followed, of 0 .. 6
  EmuNands,       \* indices of the EmuNANDs on the SD card
  MaxVersion,     \* bound: versions of boot.firm are 1 .. MaxVersion
  Absent          \* no configuration; nothing chosen

VARIABLES
  ini,        \* config.ini: a configuration, or Absent when it is missing or has an error
  mcu,        \* MCU memory: [version, boot]; version 0 when the checksum is wrong
  pinFile,    \* pin.bin: its number of digits, 0 when there is none
  installed,  \* version of boot.firm
  pc,         \* what ARM9 does, "running" once it has started a FIRM, or "off"
  bootType,   \* "B9S" or "FIRMLAUNCH"
  bootenv,    \* CFG_BOOTENV: 0 cold, 1 from a 3DS FIRM, 3 from TWL_FIRM, 7 from AGB_FIRM
  firm,       \* the FIRM that runs: "NATIVE", "TWL" or "AGB"
  configData, \* configData.config and multiConfig
  bootConfig, \* configData.bootConfig
  oldConfig,  \* the same three fields of oldConfig: [cfg, boot]
  needConfig, \* "create" or "modify"
  pinExists,  \* the PIN was asked and entered
  bootMenu,   \* the menu's state: [single, multi, dirty]
  choice,     \* nandType, emunandIndex and isNoForceFlagSet, as a boot configuration
  saving,     \* Rosalina has set the size of config.ini and has not written it
  session,    \* history: the NAND chosen by the last boot that was no firmlaunch
  replaced,   \* history: boot.firm has been replaced since
  chosen,     \* history: what the menu was left with, while nobody else changed it
  unpinned    \* history: power was cut while the menu stored its choice, or somebody edited
              \* config.ini, and the menu has not dealt with the PIN since

\* The configurations there are.
Configs == [config : SUBSET SingleOptions, multi : [MultiOptions -> 0 .. 3]]

BootConstantsOK == EmuNands \subseteq Nat /\ MaxVersion \in Nat /\ Absent \notin Configs

ram == <<configData, bootConfig, oldConfig, needConfig, pinExists, bootMenu, choice>>
bootVars == <<ini, mcu, pinFile, installed, pc, bootType, bootenv, firm, ram, saving,
              session, replaced, chosen, unpinned>>

AUTOBOOTEMU == 0
ENABLEDSIEXTFILTER == 7
NUMCONFIGURABLE == 6        \* PATCHUNITINFO
DEFAULTEMU == 0
PIN == 3
singleOptionsAmount == 9    \* the options and three entries that are none
multiOptionsAmount == 6
Digits(mode) == IF mode = 0 THEN 0 ELSE 4 + 2 * (mode - 1)

Sys == [nand |-> "sys", emu |-> 0, noForce |-> FALSE]
\* What memset and the defaults leave of the options that are followed.
Defaults == [config |-> {}, multi |-> [o \in MultiOptions |-> 0]]
Multi(conf, o) == IF o \in MultiOptions THEN conf.multi[o] ELSE 0
NoMenu == [single |-> {}, multi |-> Defaults.multi, dirty |-> FALSE]

NoRam ==
  /\ configData' = Defaults /\ bootConfig' = Sys
  /\ oldConfig' = [cfg |-> Defaults, boot |-> Sys]
  /\ needConfig' = "modify" /\ pinExists' = FALSE /\ bootMenu' = NoMenu /\ choice' = Sys

BootInit ==
  /\ ini = Absent /\ mcu = [version |-> 0, boot |-> Sys] /\ pinFile = 0 /\ installed = 1
  /\ pc = "off" /\ bootType = "B9S" /\ bootenv = 0 /\ firm = "NATIVE"
  /\ configData = Defaults /\ bootConfig = Sys
  /\ oldConfig = [cfg |-> Defaults, boot |-> Sys]
  /\ needConfig = "modify" /\ pinExists = FALSE /\ bootMenu = NoMenu /\ choice = Sys
  /\ saving = FALSE
  /\ session = Sys /\ replaced = FALSE /\ chosen = Absent /\ unpinned = FALSE

bootHistory == <<session, replaced, chosen, unpinned>>
stored == <<ini, mcu, pinFile, installed>>
-----------------------------------------------------------------------------
(* The configuration.                                                       *)

\* writeConfigMcu: the boot configuration written is the one of configData.
WrittenMcu(boot) == [version |-> installed, boot |-> boot]

\* Mutant of ReadMcu: memory of the current version is written anew, too.
ReadMcuAlways == IF mcu.version <= installed THEN WrittenMcu(Sys) ELSE mcu

\* readConfigMcu, with readConfig's use of it: memory that is invalid, or written by an
\* older version, is written anew while configData.bootConfig is still 0.
ReadMcu == IF mcu.version < installed THEN WrittenMcu(Sys) ELSE mcu

\* readConfig.
ReadConfig ==
  LET ok == mcu.version # 0 /\ ini # Absent
      conf == IF ok THEN ini ELSE Defaults
  IN /\ pc = "read"
     /\ mcu' = ReadMcu
     /\ configData' = conf /\ bootConfig' = ReadMcu.boot
     /\ oldConfig' = [cfg |-> conf, boot |-> ReadMcu.boot]
     /\ needConfig' = IF ok THEN "modify" ELSE "create"
     /\ pc' = CASE bootType # "FIRMLAUNCH" -> "decide"
                [] bootType = "FIRMLAUNCH" /\ ok -> "boot"
                [] OTHER -> "off"
     /\ choice' = IF bootType = "FIRMLAUNCH" THEN [ReadMcu.boot EXCEPT !.noForce = FALSE] ELSE Sys
     /\ UNCHANGED <<ini, pinFile, installed, bootType, bootenv, firm, pinExists, bootMenu, saving,
                    bootHistory>>

\* Mutant of UpdatesIni: only the single options are compared.
UpdatesIniOfOptions(conf) == needConfig = "create" \/ conf.config # oldConfig.cfg.config

\* Whether writeConfig(true) writes config.ini.
UpdatesIni(conf) == needConfig = "create" \/ conf # oldConfig.cfg
\* Whether writeConfig(false) writes to the MCU.
UpdatesMcu(boot) == needConfig = "create" \/ boot # oldConfig.boot
-----------------------------------------------------------------------------
(* main.                                                                    *)

\* The last boot's options are forced: NAND, and EmuNAND, of the boot configuration.
Forced(pressed, validTlnc) == validTlnc \/ (pressed = {} /\ ~bootConfig.noForce)

\* After a reboot, unless there is no configuration; nothing is forced after AGB_FIRM.
ForceOptions ==
  /\ pc = "decide" /\ bootenv # 0 /\ needConfig # "create"
  /\ \/ /\ bootenv = 7
        /\ choice' = [Sys EXCEPT !.noForce = bootConfig.nand # "sys"]
     \/ /\ bootenv # 7
        /\ \E pressed \in SUBSET {"L1"}, validTlnc \in {FALSE, bootenv = 3} :
             Forced(pressed, validTlnc)
        /\ choice' = [bootConfig EXCEPT !.noForce = FALSE]
  /\ pc' = "boot"
  /\ UNCHANGED <<stored, bootType, bootenv, firm, configData, bootConfig, oldConfig, needConfig,
                 pinExists, bootMenu, saving, bootHistory>>

\* The menu is entered on request, or when there is no configuration; the PIN, when its
\* file is there and of the right length, has been entered.  Who does not know it goes no
\* further.
AskPin ==
  /\ pc = "decide"
  /\ \/ bootenv = 0 \/ needConfig = "create"
     \/ bootenv \in {1, 3} /\ \E pressed \in SUBSET {"L1"} : ~Forced(pressed, FALSE)
  /\ pinExists' = (Multi(configData, PIN) # 0 /\ pinFile = Digits(Multi(configData, PIN)))
  /\ \E select \in BOOLEAN :
       IF select \/ needConfig = "create"
       THEN /\ pc' = "menu"
            /\ bootMenu' = [single |-> configData.config, multi |-> configData.multi,
                        dirty |-> needConfig = "create"]
       ELSE pc' = "choose" /\ UNCHANGED bootMenu
  /\ UNCHANGED <<stored, bootType, bootenv, firm, configData, bootConfig, oldConfig, needConfig,
                 choice, saving, bootHistory>>

\* The NAND asked for: SysNAND for SAFE_MODE, else autoboot_emunand, which L reverses.
AskedNand(l1, safe) ==
  IF safe THEN Sys
  ELSE [nand |-> IF (AUTOBOOTEMU \in configData.config) = l1 THEN "sys" ELSE "emu",
        emu |-> 0, noForce |-> FALSE]

\* Which EmuNAND: a button's, or the default one.
ChooseNand ==
  /\ pc = "choose"
  /\ \E l1, safe \in BOOLEAN, dpad \in {0, 1, Multi(configData, DEFAULTEMU)} :
       LET asked == AskedNand(l1, safe)
       IN /\ safe => bootenv = 0
          /\ choice' = IF asked.nand = "emu" THEN [asked EXCEPT !.emu = dpad] ELSE asked
  /\ pc' = "boot"
  /\ UNCHANGED <<stored, bootType, bootenv, firm, configData, bootConfig, oldConfig, needConfig,
                 pinExists, bootMenu, saving, bootHistory>>

\* locateEmuNand: the EmuNAND asked for, or the first, or SysNAND.
Located(c) ==
  CASE c.nand = "sys" \/ c.emu \in EmuNands -> c
    [] c.nand = "emu" /\ c.emu \notin EmuNands /\ 0 \in EmuNands -> [c EXCEPT !.emu = 0]
    [] OTHER -> [c EXCEPT !.nand = "sys", !.emu = 0]

\* From label boot to launchFirm.
Boot ==
  LET boot == Located(choice)
  IN /\ pc = "boot"
     /\ pc' = "running"
     /\ IF bootType = "FIRMLAUNCH"
        THEN UNCHANGED <<mcu, session, replaced>> /\ UNCHANGED bootConfig
        ELSE /\ mcu' = IF UpdatesMcu(boot) THEN WrittenMcu(boot) ELSE mcu
             /\ bootConfig' = boot
             /\ session' = boot /\ replaced' = FALSE
     /\ choice' = boot
     /\ oldConfig' = [cfg |-> Defaults, boot |-> Sys]    \* no longer used
     /\ UNCHANGED <<ini, pinFile, installed, bootType, bootenv, firm, configData, needConfig,
                    pinExists, bootMenu, saving, chosen, unpinned>>
-----------------------------------------------------------------------------
(* configMenu.                                                              *)

InMenu ==
  pc = "menu" /\ UNCHANGED <<stored, bootType, bootenv, firm, configData, bootConfig, oldConfig,
                             needConfig, pinExists, choice, saving, bootHistory, pc>>

\* A single option or a multiple one is changed in the list.
Toggle ==
  /\ InMenu
  /\ \/ \E i \in SingleOptions \cap (0 .. NUMCONFIGURABLE - 1) :
          bootMenu' = [bootMenu EXCEPT !.dirty = TRUE,
                               !.single = IF i \in @ THEN @ \ {i} ELSE @ \cup {i}]
     \/ \E o \in MultiOptions \cap (0 .. multiOptionsAmount - 1), v \in 0 .. 3 :
          /\ v <= (IF o = DEFAULTEMU THEN 1 ELSE 2)    \* bound on the values followed
          /\ bootMenu' = [bootMenu EXCEPT !.dirty = TRUE, !.multi[o] = v]

\* DS Widescreen Labs in the Boot Hub.
SetTwlFilter ==
  /\ InMenu /\ ENABLEDSIEXTFILTER \in SingleOptions
  /\ \E on \in BOOLEAN :
       bootMenu' = [bootMenu EXCEPT !.dirty = TRUE,
                            !.single = IF on THEN @ \cup {ENABLEDSIEXTFILTER}
                                       ELSE @ \ {ENABLEDSIEXTFILTER}]

\* A profile, or the wizard, sets some of these options at once.
ProfileSingles == 1 .. 3      \* LOADEXTFIRMSANDMODULES, PATCHGAMES, REDIRECTAPPTHREADS
ProfileMultis == {1, 2, 4}    \* BRIGHTNESS, SPLASH, NEWCPU

ApplyProfile ==
  /\ InMenu
  /\ \E on \in SUBSET (ProfileSingles \cap SingleOptions),
        value \in [ProfileMultis \cap MultiOptions -> 0 .. 1] :
       bootMenu' = [single |-> (bootMenu.single \ ProfileSingles) \cup on,
                multi |-> [o \in MultiOptions |->
                             IF o \in ProfileMultis THEN value[o] ELSE bootMenu.multi[o]],
                dirty |-> TRUE]

\* What is kept of the menu: options that are not configurable can only be set, and
\* multiple options that are not in the list become 0.
MenuConfig ==
  [config |-> (configData.config \ (0 .. NUMCONFIGURABLE - 1))
                \cup (bootMenu.single \cap (0 .. singleOptionsAmount - 1)),
   multi |-> [o \in MultiOptions |-> IF o < multiOptionsAmount THEN bootMenu.multi[o] ELSE 0]]

\* finishConfigMenu: the configuration is put together; "Continue normal boot" with
\* nothing changed saves nothing.
LeaveMenu ==
  /\ pc = "menu"
  /\ \/ /\ ~bootMenu.dirty
        /\ pc' = "choose"
        /\ bootMenu' = NoMenu /\ UNCHANGED configData
     \/ /\ configData' = MenuConfig
        /\ pc' = "save"
        /\ UNCHANGED bootMenu
  /\ UNCHANGED <<stored, bootType, bootenv, firm, bootConfig, oldConfig, needConfig, pinExists,
                 choice, saving, bootHistory>>

\* writeConfig(true).
SaveConfig ==
  /\ pc = "save"
  /\ ini' = IF UpdatesIni(configData) THEN configData ELSE ini
  /\ needConfig' = "modify"
  /\ chosen' = [single |-> bootMenu.single, multi |-> bootMenu.multi]
  /\ bootMenu' = NoMenu
  /\ pc' = "pin"
  /\ UNCHANGED <<mcu, pinFile, installed, bootType, bootenv, firm, configData, bootConfig, oldConfig,
                 pinExists, choice, saving, session, replaced, unpinned>>

\* Mutant of MayKeepPin: a PIN of another length is kept, too.
MayKeepAnyPin(mode) == pinExists

\* Whether newPin lets the user keep the PIN.
MayKeepPin(mode) == pinExists /\ mode = Multi(oldConfig.cfg, PIN)

\* The rest: a new PIN, unless it may be kept and is, or no PIN any longer.
UpdatePin ==
  LET mode == Multi(configData, PIN)
  IN /\ pc = "pin"
     /\ \/ mode # 0 /\ pinFile' = Digits(mode)
        \/ mode # 0 /\ MayKeepPin(mode) /\ UNCHANGED pinFile
        \/ mode = 0 /\ pinFile' = IF pinExists THEN 0 ELSE pinFile
     /\ pc' = "choose" /\ unpinned' = FALSE
     /\ UNCHANGED <<ini, mcu, installed, bootType, bootenv, firm, ram, saving, session, replaced,
                    chosen>>
-----------------------------------------------------------------------------
(* While a FIRM runs, and while none does.                                  *)

\* The console is turned on, or reboots.
PowerOn ==
  /\ pc = "off"
  /\ pc' = "read" /\ bootType' = "B9S" /\ bootenv' = 0 /\ firm' = "NATIVE" /\ NoRam
  /\ UNCHANGED <<stored, saving, bootHistory>>

Reboot ==
  /\ pc = "running" /\ ~saving
  /\ pc' = "read" /\ bootType' = "B9S" /\ firm' = "NATIVE" /\ NoRam
  /\ bootenv' = CASE firm = "NATIVE" -> 1 [] firm = "TWL" -> 3 [] OTHER -> 7
  /\ UNCHANGED <<stored, saving, bootHistory>>

\* The system launches another FIRM: ARM9 starts again.
Firmlaunch ==
  /\ pc = "running" /\ ~saving /\ firm = "NATIVE"
  /\ \E f \in {"NATIVE", "TWL", "AGB"} : firm' = f
  /\ pc' = "read" /\ bootType' = "FIRMLAUNCH" /\ NoRam
  /\ UNCHANGED <<stored, bootenv, saving, bootHistory>>

\* OmiibaConfig_SaveSettings: the size is set, which may leave a file with an error in it,
\* then the settings the kernel was given are written.
SetSize ==
  /\ pc = "running" /\ firm = "NATIVE" /\ ~saving
  /\ saving' = TRUE
  /\ \E damaged \in BOOLEAN : ini' = IF damaged THEN Absent ELSE ini
  /\ UNCHANGED <<mcu, pinFile, installed, pc, bootType, bootenv, firm, ram, bootHistory>>

WriteSettings ==
  /\ saving /\ pc = "running"
  /\ saving' = FALSE /\ ini' = configData
  /\ UNCHANGED <<mcu, pinFile, installed, pc, bootType, bootenv, firm, ram, bootHistory>>

\* What a write of config.ini that is cut short leaves: sectors of the new text before some
\* of the old one, which may be an error, or give each option its new, old or default value.
Torn(old, new) ==
  {Absent, old} \cup
  {[config |-> c, multi |-> m] :
     c \in SUBSET (new.config \cup (IF old = Absent THEN {} ELSE old.config)),
     m \in {f \in [MultiOptions -> 0 .. 3] :
             \A o \in MultiOptions :
               f[o] \in {0, new.multi[o]} \cup (IF old = Absent THEN {} ELSE {old.multi[o]})}}

\* At any time, also while the menu's choice is stored: then neither the old nor the new
\* choice need be there.
LosePower ==
  /\ pc # "off"
  /\ pc' = "off" /\ saving' = FALSE /\ NoRam
  /\ bootType' = "B9S" /\ bootenv' = 0 /\ firm' = "NATIVE"
  /\ IF pc = "save" /\ UpdatesIni(configData)
     THEN ini' \in Torn(ini, configData) /\ chosen' = Absent
     ELSE UNCHANGED ini /\ chosen' = IF ini = Absent THEN Absent ELSE chosen
  /\ pinFile' \in IF pc = "pin" THEN {pinFile, 0, Digits(Multi(configData, PIN))} ELSE {pinFile}
  /\ unpinned' = (unpinned \/ pc \in {"save", "pin"})
  /\ UNCHANGED <<mcu, installed, session, replaced>>

\* boot.firm is updated, on a PC or while the system runs.
ReplaceFirm ==
  /\ pc \in {"off", "running"} /\ installed < MaxVersion
  /\ installed' = installed + 1 /\ replaced' = TRUE
  /\ UNCHANGED <<ini, mcu, pinFile, pc, bootType, bootenv, firm, ram, saving, session, chosen,
                 unpinned>>

\* config.ini is edited or removed on a PC, or the MCU loses its memory with the battery.
EditIni ==
  /\ pc = "off"
  /\ \/ ini' = Absent
     \/ /\ ini # Absent
        /\ \E o \in MultiOptions, v \in 0 .. 1 : ini' = [ini EXCEPT !.multi[o] = v]
  /\ chosen' = Absent /\ unpinned' = TRUE
  /\ UNCHANGED <<mcu, pinFile, installed, pc, bootType, bootenv, firm, ram, saving, session,
                 replaced>>

RemoveBattery ==
  /\ pc = "off" /\ mcu.version # 0
  /\ mcu' = [version |-> 0, boot |-> Sys]
  /\ chosen' = Absent
  /\ UNCHANGED <<ini, pinFile, installed, pc, bootType, bootenv, firm, ram, saving, session,
                 replaced, unpinned>>

BootNext ==
  \/ ReadConfig \/ ForceOptions \/ AskPin \/ ChooseNand \/ Boot
  \/ Toggle \/ SetTwlFilter \/ ApplyProfile \/ LeaveMenu \/ SaveConfig
  \/ UpdatePin
  \/ PowerOn \/ Reboot \/ Firmlaunch \/ SetSize \/ WriteSettings \/ LosePower
  \/ ReplaceFirm \/ EditIni \/ RemoveBattery

BootSpec == BootInit /\ [][BootNext]_bootVars
-----------------------------------------------------------------------------
\* A FIRM launched by the running system uses the NAND, and the EmuNAND, that the
\* system was booted from, which it learns from the MCU's memory alone.  Not when
\* boot.firm has been replaced meanwhile: then readConfigMcu writes an empty boot
\* configuration and SysNAND is used.
FirmlaunchKeepsNand ==
  pc = "running" /\ bootType = "FIRMLAUNCH" /\ ~replaced =>
    choice.nand = session.nand /\ (choice.nand = "emu" => choice.emu = session.emu)

\* What the user left the menu with is in force at each boot from then on, until
\* somebody else changes it: for the options of the list.
ChoiceIsKept ==
  chosen # Absent /\ pc \in {"decide", "boot", "running"} =>
    /\ configData.config \cap (0 .. NUMCONFIGURABLE - 1) = chosen.single \cap (0 .. NUMCONFIGURABLE - 1)
    /\ \A o \in MultiOptions \cap (0 .. multiOptionsAmount - 1) : configData.multi[o] = chosen.multi[o]

\* The TWL filter is off when the user has turned it off and saved (config.c:1507:
\* "TWL external filter is now disabled in pending Omiiba settings.  Choose Save settings
\* and boot to write it to config.ini").
TwlFilterIsOff ==
  chosen # Absent /\ pc \in {"decide", "boot", "running"} =>
    (ENABLEDSIEXTFILTER \in configData.config => ENABLEDSIEXTFILTER \in chosen.single)

\* A PIN mode in config.ini has a file with as many digits, so that the PIN is asked for:
\* whatever is chosen in whatever order, with the PIN kept, made anew or removed, and
\* whatever is launched, rebooted or lost meanwhile.  Except while the menu is about to
\* deal with the PIN, and after power was cut just then, until the menu is next gone
\* through to the end: config.ini is written first (config.c:3556), and the mode stands
\* without its PIN, which the next boot does not ask for.
PinIsAsked ==
  ~unpinned /\ pc # "pin" /\ ini # Absent /\ Multi(ini, PIN) # 0 =>
    pinFile = Digits(Multi(ini, PIN))
=============================================================================
