\* Two launches of one application at the same time, one attempt each:
\* does each runtime get the jars its own launcher extracted?
CONSTANTS
    p1 = p1  p2 = p2  app = app  jni = jni  out1 = out1  out2 = out2
    Procs = {p1, p2}
    Attempts = 1
    MaxTemp = 5
    EmbedJar = TRUE
    JarBlob = TRUE
    JniBlob = TRUE
    Payload <- MCPayload
    Output <- MCOutput
    Jni = jni
SPECIFICATION Spec
INVARIANT OwnClasspath
CHECK_DEADLOCK FALSE
