------------------------------- MODULE Byte --------------------------------
(* crates/simd/src/byte.rs: sums over u8 slices, as 32-bit integers.         *)
EXTENDS LaneKernels

\* dpbusd multiplies unsigned by signed bytes, so y is shifted by 128 and the
\* missing 128 x is added from a second accumulator.
reduce_sum_of_xy_v4_avx512vnni ==
    SumsOf(<<"x_signed", "x">>, <<1, 128>>, <<Full(64, <<0>>), Masked(64, 0)>>)
reduce_sum_of_xy_v4 == SumOf("xy", {0}, <<Full(64, <<0>>), Masked(64, 0)>>)
reduce_sum_of_xy_v3 == SumOf("xy", {0}, <<Full(32, <<0>>), partial_load(32, <<0>>, "zero")>>)
reduce_sum_of_xy_v2 == SumOf("xy", {0}, <<Full(16, <<0>>), partial_load(16, <<0>>, "zero")>>)
byte_reduce_sum_of_xy_a2_dotprod ==
    SumOf("xy", {0}, <<Full(16, <<0>>), partial_load(16, <<0>>, "zero")>>)
reduce_sum_of_xy_a2_dotprod == byte_reduce_sum_of_xy_a2_dotprod
reduce_sum_of_xy_a2 ==
    SumOf("xy", {0, 1}, <<Full(16, <<0, 1>>), partial_load(16, <<0, 1>>, "zero")>>)
reduce_sum_of_xy ==
    Versions("u8", {reduce_sum_of_xy_v4_avx512vnni, reduce_sum_of_xy_v4, reduce_sum_of_xy_v3,
                    reduce_sum_of_xy_v2, reduce_sum_of_xy_a2_dotprod, reduce_sum_of_xy_a2},
             SumOf("xy", {0}, Scalar))

reduce_sum_of_x_v4 == SumOf("x", {0}, <<Full(64, <<0>>), Masked(64, 0)>>)
reduce_sum_of_x_v3 == SumOf("x", {0}, <<Full(32, <<0>>), partial_load(32, <<0>>, "zero")>>)
reduce_sum_of_x_v2 == SumOf("x", {0}, <<Full(16, <<0>>), partial_load(16, <<0>>, "zero")>>)
reduce_sum_of_x_a2 == SumOf("x", {0}, <<Full(16, <<0>>), partial_load(16, <<0>>, "zero")>>)
reduce_sum_of_x ==
    Versions("u8", {reduce_sum_of_x_v4, reduce_sum_of_x_v3, reduce_sum_of_x_v2, reduce_sum_of_x_a2},
             SumOf("x", {0}, Scalar))

Kernels == {reduce_sum_of_xy, reduce_sum_of_x}
=============================================================================
