# TLA+ models of the davmail Windows launcher (JSmooth 0.9.9-7 skeleton)

The native code in this repository is the JSmooth launcher that is wrapped
around davmail's Windows executable:

- `src/archive/jsmooth-0.9.9-7-patch/skeletons/commonjava` and `util-core`
  hold JavaMachineManager, JVMRegistryLookup, ResourceManager, SunJVMDLL and
  FileUtils;
- `src/jsmooth-0.9.9-7-patch/skeletons/commonjava` holds SunJVMLauncher,
  SunJVMExe, JVMBase and Version.h;
- `src/libgrowl/src/native/GrowlJavaCallback.h` is an unrelated Objective-C
  header.

`spec.md` describes the launcher's intended behaviour.

## The system and how its parts interact

1. **ResourceManager** reads the configuration store from the executable's
   resources: the properties, the application jar and the jnismooth jar. It
   then takes the command-line tokens. `-Jk=v` goes into the store, `-Dk=v`
   becomes a java property, and anything else is an application argument.
2. The **JavaMachineManager** constructor finds the candidates:
   - the registry JVMs (**JVMRegistryLookup**, sorted with `jvmsorter_dec`);
   - `JAVA_HOME`, `JRE_HOME` and `JDK_HOME`;
   - the bundled VM.
3. `JavaMachineManager::run` walks the `jvmsearch` order, or its default. It
   passes each candidate to `internalRun`, which tries the mechanisms in
   preference order. The mechanisms are:
   - in-process: `SunJVMLauncher::run`, which uses SunJVMDLL;
   - out-of-process: `SunJVMLauncher::runProc`, which uses SunJVMExe.
4. Each attempt checks the candidate's version against `minversion` and
   `maxversion`. If the version is unknown, it is guessed first by running
   `java -version` into a temporary file. A passing attempt calls `setupVM`,
   which extracts the jars into temporary files named by
   `FileUtils::createTempFileName`.
5. The first attempt that starts ends `run()`, and the exit code is recorded.

Everything except the temporary files is single-threaded and blocking. The
temp directory is shared by every launcher process on the host, so only the
temp-file protocol has real concurrency.

## Modules

| module | models | state and actions |
|---|---|---|
| `Version` | `Version.h`: values, `operator<`, `isValid`, `AscendingSort`; the min/max gate of `SunJVMLauncher::run` | operators only |
| `Host` | what one host answers: installations, `java -version` output, the registry, environment variables, the jvm.dll outcome | constants and `Hosts` |
| `SunJVMDLL` | `SunJVMDLL::run` and `instanciate`: the library and export checks, the choice between `setupVM11DLL` and `setupVM12DLL`, `JNI_CreateJavaVM`'s answer, and `registerJniSmooth` | operators returning the set of outcomes of one call: `"true"`, `"false"` or `"crash"` |
| `SunJVMLauncher` | one attempt of `runProc` or `run` (DLL), including `guessVersion`, `lookUpExecutable`, the version the DLL is built with, and the exit code | operators returning the updated launcher and the call's outcomes |
| `JVMRegistryLookup` | `lookup` and `lookupJVM`; `std::sort` as the insertion sort libstdc++ runs on fewer than 17 elements | operators, with a `RECURSIVE` insertion |
| `JavaMachineManager` | the constructor, the setters `setAcceptExe`, `setAcceptDLL` and `setPreferDLL`, `run()` with one action per token, `internalRun`'s mechanism order, `runDLLFromRegistry`, and the process dying in an in-process attempt (`pc = "crashed"`) | `pc` is a program point of `run()`; the launcher vectors are variables, because `internalRun` writes guessed versions back into them by reference |
| `LaunchOrder` | the abstract launch contract of spec 4.4/4.5: the first candidate in priority order that an allowed mechanism launches | the caller's `Configure` steps, then one `Decide` step |
| `TempFiles` | `createTempFileName` (one loop pass per step), `guessVersion`'s probe and redirect, `saveJarInTempFile` and `saveJnismoothInTempFile`, and the runtime reading its classpath, for several launcher processes | one action per step per process; the probing child process is its own actor |
| `ResourceManager` | the constructor (three resource lookups, two early returns, java properties, `currentdir`), `setUserArguments`, `addUserArgument`, `getNormalizedClassPathVector`, `useEmbeddedJar`, the names the two extractions return, and `SunJVMLauncher::setupVM` filling a `JVMBase` | tokens are records whose length is computed from their parts, as the code tests `size() > 3`, `find("=")` and the prefix; `SetupVM` is the last step, with the jnismooth test nondeterministic when the handle was never initialised |
| `FileUtils` | `isAbsolute`, `concFile`, `fileExists`, `getParent`, `recursiveSearch` | paths are records `[abs, segs]`; a directory is the sequence of entries `FindFirstFile`/`FindNextFile` list, and the file system is a sequence of drive entries; `RecursiveSearch` and the path lookup `EntryAt` are `RECURSIVE` |
| `SunJVMExe` | `lookUpExecutable`, `getClassPath` and the command line `SunJVMExe::run` assembles from a `JVMBase` and a version | operators; the command is a sequence of tokens `[k, x]` (executable, VM-parameter word, heap flag, property, `-classpath`, main class, argument), with quoting and joining left out |
| `JVMBase` | the constructor and the setters `setupVM` calls | operators on a record of the fields |

`MCResourceManager` extends both `ResourceManager` and `SunJVMExe`. This
composes the store, `setupVM` and the out-of-process command line: the `vm`
that `SetupVM` fills is the input of `ExeCommand`.

The `MC*` modules give the constants values and state the properties.
`MCJavaMachineManager` also instantiates `LaunchOrder` with the refinement
mapping:

- `status` is taken from `run()`'s result;
- `chosen` is taken from the launch history;
- the three mechanism flags are the same variables in both.

An in-process failure is a candidate that did not work in `LaunchOrder`
(spec 4.4). In `JavaMachineManager`, the process may die in `SunJVMDLL`.
From there on the refinement holds by stuttering, and `Termination` asks
whether that can happen.

## Runs

| run | result | what it shows |
|---|---|---|
| `registry_sort` | pass | With parseable keys, `lookupJVM` returns the usable entries in non-increasing version order. The sub-key lists have up to 3 JRE and 2 JDK entries, with versions from {1.4.0, 1.4.2, 1.5.0}, a key used twice included. The same run checks `recursiveSearch` against a reference definition (the paths that name a matching entry): over all two-level trees of at most two of `x.jar`, `y.jar`, `lib` per directory, searched for `*.jar`, it lists every match exactly once (`SearchFindsEachMatch`, evaluated once, in the initial state of an empty registry). |
| `registry_invalid` | violation | An unparseable sub-key can sort before valid ones. `operator<` is true whenever either side is invalid, so it is not a strict weak order (spec 4.2 requires valid entries first). |
| `launch_default` | pass | The default order and the bundled VM. `main` may prefer the DLL and may call either `run()` or `runDLLFromRegistry`. The runtime really launched from the registry, `JRE_HOME` or `PATH` always satisfies `minversion` (`RealGate`). The search always ends, by returning or by dying in `SunJVMDLL` (`RunEnds`). |
| `launch_refine` | pass | A bundled VM, an explicit order that includes jview, and every combination of the three setters. `run()` refines `LaunchOrder` and reports the launched process's exit code. |
| `launch_exitcode` | violation | After an `exepath` launch, `run()` reports `m_localVM`'s exit code (`JavaMachineManager.cpp:138`). |
| `launch_jdkpath` | violation | The default order names `jdkpath`, but `run()` has no branch for it, so a later candidate launches. |
| `launch_dllcrash` | violation | A bundled VM of unknown version, `minversion` 1.1 and a java property are configured. The bundled VM's in-process attempt is built as a 1.1 VM, and `setupVM11DLL` writes into an empty vector (`SunJVMDLL.cpp:203`), so `run()` never returns (`Termination`). |
| `launch_libonly` | violation | A registry key with `RuntimeLib` but no `JavaHome` is gated on the key's version, then a bare `java.exe` from the search path is started. |
| `temp_single` | pass | A single launcher, over two attempts and with a stale file left from an earlier run, loads its own jars and reads its own probe output. |
| `temp_race` | violation | Two concurrent launchers can receive the same jar name, so one loads the other's jar. |
| `temp_probe` | violation | Two concurrent probes can share a `.tmp` redirect file. |
| `config_arguments` | pass | `-J` and `-D` tokens are diverted and all other tokens are forwarded in order. This covers every resource combination, and token sequences of up to three. The shortest diverted tokens have 4 characters (`-Dk=`); no 3-character token with an `=` (`-J=`) is among the tokens, so the lower side of the `size() > 3` test is not exercised (`-Dk` is forwarded because it has no `=`). Then `setupVM` runs. The VM's classpath ends with the words of the `classpath` property as it is at launch, each relative one resolved under the base of the configured `currentdir` template. That base is `${EXECUTABLEPATH}\lib`, `%HOME%`, `lib` or none. A later `-Jcurrentdir` token does not move it (`ClasspathResolved`; `getNormalizedClassPathVector` reads `m_currentDirectory`). After `setupVM`, `SunJVMExe::run`'s command line is checked for four JRE homes (none, a JDK, a JRE whose `java.exe` lies deeper, and a directory with no executable), versions 1.1 and 1.6, and both console choices. Everything after the main class is exactly the application arguments. There is one `-classpath` argument before the main class: the VM's path, plus, for a 1.1 VM only, the `.zip` and then the `.jar` files under the grandparent of the console `java.exe` (`CommandCarriesStore`). |

For every property of a passing run, `PROJECT.json` lists a mutant: a
plausible bug in the mapped code that makes TLC report the property violated.

## Bounds

- **Launcher models:** three installations, each with a chosen probe answer
  (1.4, 1.8 or invalid), whether its `java.exe` starts, and its jvm.dll
  outcome (absent, does not load, `JNI_CreateJavaVM` fails, or works).
  - `launch_default` leaves out "does not load". For a version other than
    1.1, its single outcome, `false`, is one of the outcomes of a failed
    `JNI_CreateJavaVM`, so no behaviour of `run()` is lost.
  - The three environment variables are each set or unset.
  - Together this gives each token both a working and a failing candidate,
    plus version gates on both sides of `minversion` 1.6.
  - Registry: two JRE keys. That is enough for the sort and for the
    write-back between a registry entry and a later attempt.
- **Temp files:** five names per extension and two processes. This is enough
  for both processes to pick the same name after skipping a stale file.
  `temp_single` uses two attempts, so that a second attempt reuses names
  after the first.
- **Arguments:** three tokens. That is enough to see a `-J` override written
  twice and a `setUserArguments` after an `addUserArgument`. The same three
  tokens can also override `embedjar`, `classpath` and `currentdir` before
  `setupVM`.
  - The four `currentdir` templates cover each branch of the constructor and
    of `getNormalizedClassPathVector`: the placeholder, an absolute
    environment value, a relative value, and none.
  - The classpath holds one relative and one absolute word.
- **Command line:** one file system of three directories under `C:`. `C:\jdk`
  has `bin\java.exe`, archives at its top and in `lib`, so the order of
  `.zip` before `.jar` and own-before-sub-directory matters. `C:\jre` has its
  `java.exe` two levels down, found by `recursiveSearch`, with an archive
  above the grandparent that must not be added. `C:\bad` has no
  executable, so `lookUpExecutable` returns the empty path.
- **Directory trees:** two levels and two entries per directory. That is
  enough for a directory with two matches, a match that is itself a
  directory, and matches under a second sub-directory.

## Fairness

`JavaMachineManager` is one thread making blocking calls. Its specification
has weak fairness on `Next`, which says only that the thread keeps running
once a call returns. Spec 5 states that no attempt is raced or timed out.
`RunEnds` and `Termination` therefore assume that every started runtime
returns. The wrapper's `main` calls the setters finitely often, then one
entry point, so there is weak fairness on `Run \/ RunDLLFromRegistry` as
well. The temp files and the argument store are checked for safety only.

`registerJniSmooth` after a failed `JNI_CreateJavaVM` calls into a VM that
was never created. That call is modelled as a choice between a crash and
returning false, so the passing runs check `RunEnds` (returns or dies)
rather than `Termination`.

## Not modelled

- The option strings of `setupVM12DLL`/`setupVM11DLL`, and `SunJVMDLL`'s JNI
  helpers (lines 232-431). These run inside a live VM, and their only
  control is a failed lookup.
- `setUseConsole`, which only chooses between java.exe and javaw.exe.
- The `SunJVMDLL` objects that are never deleted, which leave every loaded
  jvm.dll in the process.
- The quoting (`requoteForCommandLine`) and joining with spaces and `;` of
  the command line. The tokens and their order are modelled; how they
  become one string is not. `StringUtils.cpp`, `Version.cpp`, `Properties`
  and `JVMEnvVarLookup` are not in the repository, so `split`, `parseInt`,
  the version parser and the property store are constants of the models.
- The code's command-line order puts the heap flags before the properties,
  where spec 4.4 lists the properties first. Java reads both kinds of
  option in any order, so no property checks this.
- `getParent("")` reads `path[-1]` when no `java.exe` is found for a 1.1 VM
  (`FileUtils.cpp:127`). The model takes the empty path, so no archives are
  added; a crash at that read is not explored.
- Header declarations (`*.h` other than `Version.h`'s inline operators),
  `printDebug`, `getResourceSize`, `getExitCode`/`getDLL` getters,
  `extractFileName`, `getExecutableFileName`, `getComputerName`,
  `deleteOnReboot` and `readFile`. These are declarations, logging,
  trivial getters or I/O, and none of them has control that a property
  depends on.
- `JVMBase::setArguments`, which has no caller.
- An early-returning constructor followed by `setupVM`:
  - the model lets the uninitialised jnismooth handle go either way;
  - no run asks whether a temp name for an absent resource reaches the
    classpath (spec 4.3 says extraction returns empty).
- Spec 4.4's order of the classpath argument (classpath, bridge, payload)
  is the reverse of the one `setupVM` builds (payload, jnismooth,
  classpath); no run checks either order.
- The working directory of the launcher process, against which a bundled VM
  with no `currentdir` is resolved (`JavaMachineManager.cpp:43`).
- `RegEnumKey`'s buffer-size reuse (byte lengths are below the abstraction).
- Reclaiming temp files across reboots.
- `GrowlJavaCallback.h`, which has no behaviour.

Each of these is listed as a component or a hazard in `PROJECT.json`.

## Limits

The two divergences still without a violation run are the `RegEnumKey`
buffer-size reuse (`JVMRegistryLookup.cpp:58`), which needs byte lengths of
registry names, and spec 4.4's classpath order. Both are hazards in
`PROJECT.json` with a note, and every part of the launcher with control
flow is now either an action or an operator of a module.
