\* One launcher process, two attempts, embedded jar and jnismooth jar both
\* present, the temp directory possibly holding a file from an earlier launch.
CONSTANTS
    p1 = p1  p2 = p2  app = app  jni = jni  out1 = out1  out2 = out2
    Procs = {p1}
    Attempts = 2
    MaxTemp = 5
    EmbedJar = TRUE
    JarBlob = TRUE
    JniBlob = TRUE
    Payload <- MCPayload
    Output <- MCOutput
    Jni = jni
SPECIFICATION Spec
INVARIANTS TypeOK OwnClasspath ProbeOwnOutput
CHECK_DEADLOCK FALSE
