\* Two launches probing different candidates at the same time: does each
\* guessVersion read its own "java -version" output?
CONSTANTS
    p1 = p1  p2 = p2  app = app  jni = jni  out1 = out1  out2 = out2
    Procs = {p1, p2}
    Attempts = 1
    MaxTemp = 5
    EmbedJar = TRUE
    JarBlob = TRUE
    JniBlob = TRUE
    Payload <- MCPayload
    Output <- MCOutput
    Jni = jni
SPECIFICATION Spec
INVARIANT ProbeOwnOutput
CHECK_DEADLOCK FALSE
