------------------------------ MODULE Settings ------------------------------
(***************************************************************************)
(* The selection dialog that every PassThruOpen shows (SelectionBox.cpp,   *)
(* shim_checkAndAutoload), and Settings.ini, in which it keeps the port,   *)
(* the log folder and the baud rate from one run of the application to the *)
(* next.  PassThruSession composes the dialog with the calls.              *)
(*                                                                         *)
(* The user, the ports Windows lists, the file system and the end of the   *)
(* process are external: any choice, any list of ports each time it is     *)
(* read, any open of the file that fails, and an end at any moment.        *)
(***************************************************************************)
EXTENDS Integers, Sequences, FiniteSets

CONSTANTS
    Ports,         \* names of serial ports
    Rates,         \* baud rates of the dialog's list, but for the first, 300
    Folders,       \* log folders whose names an ini line carries
    OddFolders,    \* and the names it does not carry, of Odd below
    DefaultFolder  \* Logs, beside the DLL

Odd == {"equals",      \* with a '=': what follows it is not read
        "wide",        \* with a character outside the code page: fprintf
                       \* stops there, and the next line goes on
        "empty"}       \* nothing is read, and the default stays
CutName == "the first part of the name"
NoPort == "no port"            \* ComPort before it is set
NoRate == 0                    \* Baudrate before it is set
FirstRate == 300
Typed == -1                    \* the user wrote into the list of rates

ASSUME PortAssumption == IsFiniteSet(Ports) /\ NoPort \notin Ports
ASSUME RateAssumption == Rates \subseteq Nat \ {NoRate, FirstRate}
ASSUME FolderAssumption == /\ DefaultFolder \in Folders
                           /\ OddFolders \subseteq Odd
                           /\ (Odd \cup {CutName}) \cap Folders = {}

VARIABLES
    ini,           \* Settings.ini: the values of the lines it has
    ComPort, Baudrate,
    dialog,        \* "closed", "shown" or "saving"
    SerialPorts,   \* the ports listed, in order
    choice,        \* what the controls show: port index, rate and folder
    outcome,       \* how the last dialog ended: "none", "ok", "cancel"
    crashed,       \* an exception or a wild pointer ended the process
    \* history
    saved          \* what the last completed save was meant to keep, unless
                   \* Settings.ini was emptied since

globals == <<ComPort, Baudrate>>
dialogVars == <<dialog, SerialPorts, choice, outcome>>
settingVars == <<ini, globals, dialogVars, crashed, saved>>

AllRates == {FirstRate} \cup Rates
NoLines == [key \in {} |-> 0]  \* no file, or an empty one
NoChoice == [port |-> -1, rate |-> FirstRate, folder |-> DefaultFolder]
NothingSaved == [port |-> NoPort, rate |-> NoRate, folder |-> "empty"]

-----------------------------------------------------------------------------
InitSettings ==
    /\ ini = NoLines /\ saved = NothingSaved
    /\ ComPort = NoPort /\ Baudrate = NoRate
    /\ dialog = "closed" /\ SerialPorts = <<>> /\ choice = NoChoice
    /\ outcome = "none"
    /\ crashed = FALSE

(* ListSerialPorts: the ports present, in the order Windows has them.      *)
Listings == UNION {{s \in [1..n -> Ports] : \A i, j \in 1..n : i # j => s[i] # s[j]} :
                   n \in 0..Cardinality(Ports)}

(* A line that is missing leaves the value there was.                      *)
LineOr(key, value) == IF key \in DOMAIN ini THEN ini[key] ELSE value

(* Indices of a list count from 0; with an empty list nothing is selected. *)
IndexFromOne(ports, name) ==                 \* mutant of IndexOf
    IF \E i \in DOMAIN ports : ports[i] = name
    THEN CHOOSE i \in DOMAIN ports : ports[i] = name
    ELSE IF ports = <<>> THEN -1 ELSE 0
IndexOf(ports, name) ==
    IF \E i \in DOMAIN ports : ports[i] = name
    THEN (CHOOSE i \in DOMAIN ports : ports[i] = name) - 1
    ELSE IF ports = <<>> THEN -1 ELSE 0

OnInitDialog ==
    /\ dialog = "closed"
    /\ dialog' = "shown"
    /\ ComPort' = LineOr("COMPORT", ComPort)
    /\ Baudrate' = LineOr("BAUDRATE", Baudrate)
    /\ SerialPorts' \in Listings
    /\ choice' = [port |-> IndexOf(SerialPorts', ComPort'),
                  rate |-> IF Baudrate' \in AllRates THEN Baudrate' ELSE FirstRate,
                  folder |-> LineOr("LOGFOLDER", DefaultFolder)]
    /\ outcome' = "none"
    /\ UNCHANGED <<ini, crashed, saved>>

(* The user selects a port, selects or writes a rate, writes or browses    *)
(* for a folder, or leaves them as they are.                               *)
Select(c) == /\ c.port \in {choice.port} \cup {i - 1 : i \in DOMAIN SerialPorts}
             /\ c.rate \in {choice.rate, Typed} \cup AllRates
             /\ c.folder \in {choice.folder} \cup Folders \cup OddFolders
Choices == [port : -1..Cardinality(Ports), rate : AllRates \cup {Typed},
            folder : Folders \cup OddFolders \cup {CutName}]

(* at(-1) throws, with no port listed.  bauds[-1], with a rate that was    *)
(* written, may end the process or look like the text of any rate.         *)
RateOf(rate) == IF rate = Typed THEN AllRates \cup {NoRate} ELSE {rate}

(* OnBnClickedOk up to the fopen of Settings.ini for writing, which empties *)
(* the file; when it fails the dialog stays.                               *)
ClickOk ==
    /\ dialog = "shown"
    /\ \E c \in Choices :
          /\ Select(c)
          /\ \/ /\ c.port >= 0
                /\ ComPort' = SerialPorts[c.port + 1]
                /\ Baudrate' \in RateOf(c.rate)
                /\ choice' = c
                /\ \/ dialog' = "saving" /\ ini' = NoLines /\ saved' = NothingSaved
                   \/ UNCHANGED <<dialog, ini, saved>>
                /\ UNCHANGED crashed
             \/ /\ c.port < 0 \/ c.rate = Typed
                /\ crashed' = TRUE
                /\ UNCHANGED <<ini, globals, dialog, choice, saved>>
    /\ UNCHANGED <<SerialPorts, outcome>>

(* What fgets and strtok_s will read of the lines that fprintf writes.     *)
LinesWithoutPort == [BAUDRATE |-> Baudrate]  \* mutant of Lines
Lines ==
    LET folder == choice.folder
    IN  CASE folder = "wide" -> [COMPORT |-> ComPort, LOGFOLDER |-> CutName]
          [] folder = "equals" -> [COMPORT |-> ComPort, LOGFOLDER |-> CutName,
                                   BAUDRATE |-> Baudrate]
          [] folder = "empty" -> [COMPORT |-> ComPort, BAUDRATE |-> Baudrate]
          [] OTHER -> [COMPORT |-> ComPort, LOGFOLDER |-> folder,
                       BAUDRATE |-> Baudrate]

(* The lines reach the file with fclose.                                   *)
SaveSettings ==
    /\ dialog = "saving"
    /\ ini' = Lines
    /\ saved' = [port |-> ComPort, rate |-> Baudrate, folder |-> choice.folder]
    /\ dialog' = "closed" /\ SerialPorts' = <<>> /\ choice' = NoChoice
    /\ outcome' = "ok"
    /\ UNCHANGED <<globals, crashed>>

OnCancel ==
    /\ dialog = "shown"
    /\ dialog' = "closed" /\ SerialPorts' = <<>> /\ choice' = NoChoice
    /\ outcome' = "cancel"
    /\ UNCHANGED <<ini, globals, crashed, saved>>

UserStep == ClickOk \/ SaveSettings \/ OnCancel

(* The application ends, is killed or crashes, and is started again.       *)
RestartSettings ==
    /\ ComPort' = NoPort /\ Baudrate' = NoRate
    /\ dialog' = "closed" /\ SerialPorts' = <<>> /\ choice' = NoChoice
    /\ outcome' = "none"
    /\ crashed' = FALSE
    /\ UNCHANGED <<ini, saved>>

-----------------------------------------------------------------------------
(***************************************************************************)
(* Properties                                                              *)
(***************************************************************************)
(* Every variable has the shape the code gives it, and the selected port   *)
(* is one of the list.                                                     *)
SettingsTypeOK ==
    /\ DOMAIN ini \subseteq {"COMPORT", "LOGFOLDER", "BAUDRATE"}
    /\ "COMPORT" \in DOMAIN ini => ini["COMPORT"] \in Ports
    /\ "BAUDRATE" \in DOMAIN ini => ini["BAUDRATE"] \in AllRates \cup {NoRate}
    /\ "LOGFOLDER" \in DOMAIN ini => ini["LOGFOLDER"] \in Folders \cup {CutName}
    /\ ComPort \in Ports \cup {NoPort} /\ Baudrate \in AllRates \cup {NoRate}
    /\ dialog \in {"closed", "shown", "saving"}
    /\ SerialPorts \in Listings
    /\ choice \in Choices /\ choice.port + 1 \in 0..Len(SerialPorts)
    /\ outcome \in {"none", "ok", "cancel"}
    /\ crashed \in BOOLEAN
    /\ saved \in [port : Ports \cup {NoPort}, rate : AllRates \cup {NoRate},
                  folder : Folders \cup {CutName} \cup Odd]

(* What the last completed save kept is what the next dialog preselects,   *)
(* in this run of the application or after a restart, whatever dialogs     *)
(* were cancelled or could not save in between: the port if it is listed,  *)
(* the folder and the rate unless the folder's name is one that the ini    *)
(* lines do not carry.                                                     *)
SavedIsOffered == [][
    dialog = "closed" /\ dialog' = "shown" /\ saved # NothingSaved =>
        /\ \A i \in DOMAIN SerialPorts' :
              SerialPorts'[i] = saved.port => choice'.port = i - 1
        /\ saved.folder \in Folders => choice'.folder = saved.folder
        /\ saved.folder # "wide" /\ saved.rate \in AllRates
              => choice'.rate = saved.rate]_settingVars
=============================================================================
